---- MODULE Spec2Model ----
(***************************************************************************)
(* Translation store, version marker, localization table and the editor's  *)
(* key-minting / auto-translate pipeline of helium-frontend.               *)
(*                                                                         *)
(* Strings are TLA+ strings; characters are one-character strings taken    *)
(* with SubSeq.  Japanese and Chinese seed values are transliterated to    *)
(* ASCII, the store never looks inside them.                               *)
(***************************************************************************)
EXTENDS Integers, Sequences, FiniteSets, TLC

VARIABLES
    db,            \* per execution context: the module-level `db` of lib/database
    localStorage,  \* shared by the contexts: localizations_db, localizations_db_version
    now,           \* last value Date.now() returned
    lastOp,        \* the store call that completed (or threw) last, and its outcome
    idCounter,     \* how many random ids (crypto.randomUUID, generateId) were drawn
    editor,        \* Editor: the run of ensureId / ensureLocalizationsForCode: where
                   \* it stands, its code and newKeys, how the translate call ended
                   \* and the body it received
    currentComponent,    \* Editor state handed to ComponentPreview
    currentComponentId,  \* Editor state
    messages,      \* Editor: the assistant messages of useChat, [id, code]
    messageCounter,      \* how many message ids useChat has given out
    processedMessageIds, \* Editor: the ref of that name
    runs,          \* every ensureId started so far: its message, its code, where it
                   \* stands, and the locals of its ensureLocalizationsForCode
    effectDue,     \* the effect on [messages, currentComponentId] has to run
    lastToast,     \* the message showToast was called with last
    requests,      \* bodies of the POSTs sent to /api/translate
    events,        \* number of 'localizations-updated' events dispatched
    entries,       \* LocalizationTable state: the rows it displays
    editingCell,   \* LocalizationTable state
    editValue,     \* LocalizationTable state
    preview,       \* ComponentPreview state of each context
    storageEvents  \* contexts with a 'storage' event not yet delivered

storeVars == <<db, localStorage, now, lastOp, idCounter>>
sessionVars == <<messages, messageCounter, processedMessageIds, runs, effectDue>>
editorVars ==
    <<editor, sessionVars, currentComponent, currentComponentId, lastToast, requests, events>>
tableVars == <<entries, editingCell, editValue>>
previewVars == <<preview, storageEvents>>
vars == <<storeVars, editorVars, tableVars, previewVars>>

(***************************************************************************)
(* Bounds of the model                                                     *)
(***************************************************************************)
MaxOps == 3        \* store calls per behaviour
MaxNow == 2        \* largest clock reading
MaxIds == 2        \* page loads stop once this many random ids were drawn

Contexts == {"A", "B"}

(***************************************************************************)
(* Data model                                                              *)
(***************************************************************************)
validFields == {"key", "en", "es", "fr", "de", "ja", "zh"}
validLocales == {"en", "es", "fr", "de", "ja", "zh"}
translationFields == {"es", "fr", "de", "ja", "zh"}

LocalizationEntry(id, key, en, es, fr, de, ja, zh) ==
    [id |-> id, key |-> key, en |-> en, es |-> es, fr |-> fr,
     de |-> de, ja |-> ja, zh |-> zh]

\* rows inserted into a fresh database (two of the rows of the source's list)
initialData ==
    { LocalizationEntry("2", "button.submit", "Submit", "Enviar", "Soumettre",
                        "Absenden", "Soshin", "Tijiao"),
      LocalizationEntry("4", "navigation.home", "Home", "Inicio", "Accueil",
                        "Startseite", "Homu", "Shouye") }

\* cryptoRandomId() / crypto.randomUUID(): an id never drawn before; n is the
\* number of ids drawn so far
cryptoRandomId(n) == "uuid" \o ToString(n + 1)

\* keys ensureSeedKeys re-creates when a loaded database lacks them, in the
\* order of the ensure(...) calls (two of the keys of the source's list)
seedKeys ==
    << LocalizationEntry("", "navigation.home",
                         "Home", "Inicio", "Accueil", "Startseite", "Homu", "Shouye"),
       LocalizationEntry("", "social.home",
                         "Home", "Inicio", "Accueil", "Startseite", "Homu", "Shouye") >>

NoDb == [open |-> FALSE, localizations |-> {}, components |-> {}]
NoSnapshot == [present |-> FALSE, localizations |-> {}, components |-> {}]

(***************************************************************************)
(* SQL statements of lib/database on the localizations table.  Each gives  *)
(* [rows, error]: the table after the statement and whether it threw.      *)
(***************************************************************************)
\* mutant: the key column carries no UNIQUE constraint
InsertOrIgnore_IdOnly(rows, e) ==
    IF \E r \in rows : r.id = e.id
    THEN [rows |-> rows, error |-> FALSE]
    ELSE [rows |-> rows \cup {e}, error |-> FALSE]

\* mutant: INSERT OR REPLACE, the conflicting rows give way to the new one
InsertOrReplace(rows, e) ==
    [rows |-> {r \in rows : r.id # e.id /\ r.key # e.key} \cup {e}, error |-> FALSE]

\* INSERT OR IGNORE: a row that conflicts on id (PRIMARY KEY) or key (UNIQUE)
\* is dropped silently
InsertOrIgnore(rows, e) ==
    IF \E r \in rows : r.id = e.id \/ r.key = e.key
    THEN [rows |-> rows, error |-> FALSE]
    ELSE [rows |-> rows \cup {e}, error |-> FALSE]

\* UPDATE localizations SET <field> = ? WHERE id = ?
UpdateWhereId(rows, id, field, value) ==
    LET hit == {r \in rows : r.id = id}
        clash == field = "key" /\ hit # {}
                 /\ \E r \in rows \ hit : r.key = value
    IN  IF clash
        THEN [rows |-> rows, error |-> TRUE]
        ELSE [rows |-> (rows \ hit) \cup {[r EXCEPT ![field] = value] : r \in hit},
              error |-> FALSE]

\* UPDATE localizations SET f1 = ?, f2 = ?, ... WHERE key = ?
\* `sets` is the function from the columns named in the SET list to their values
UpdateWhereKey(rows, key, sets) ==
    LET hit == {r \in rows : r.key = key}
        upd(r) == [f \in DOMAIN r |-> IF f \in DOMAIN sets THEN sets[f] ELSE r[f]]
    IN  [rows |-> (rows \ hit) \cup {upd(r) : r \in hit}, error |-> FALSE]

\* DELETE FROM localizations WHERE id = ?
DeleteWhereId(rows, id) ==
    [rows |-> {r \in rows : r.id # id}, error |-> FALSE]

(***************************************************************************)
(* Persistence                                                             *)
(***************************************************************************)
\* db.export() + base64: the whole database file, both tables
Export(d) ==
    [present |-> TRUE, localizations |-> d.localizations, components |-> d.components]

\* new SQL.Database(bytes) on a stored snapshot
Import(s) ==
    [open |-> TRUE, localizations |-> s.localizations, components |-> s.components]

\* mutant: rows of the stored snapshot that the saving database does not hold
\* (by id) are kept
saveDatabaseToLocalStorage_Merge(d, ls, ok) ==
    IF d.open /\ ok
    THEN [ls EXCEPT !.localizations_db =
            [Export(d) EXCEPT !.localizations =
                d.localizations \cup
                {r \in ls.localizations_db.localizations :
                    \A q \in d.localizations : q.id # r.id}]]
    ELSE ls

\* saveDatabaseToLocalStorage: `ok` is whether btoa/setItem went through; a
\* failure is caught and logged, the stored snapshot stays as it was
saveDatabaseToLocalStorage(d, ls, ok) ==
    IF d.open /\ ok THEN [ls EXCEPT !.localizations_db = Export(d)] ELSE ls

\* ensureSeedKeys: insert every seed key the table lacks, each under a fresh
\* id; gives [db, n], n the number of ids drawn afterwards
RECURSIVE ensureEach(_, _, _, _)
ensureEach(rows, have, j, n) ==
    IF j > Len(seedKeys) THEN [rows |-> rows, n |-> n]
    ELSE IF seedKeys[j].key \in have THEN ensureEach(rows, have, j + 1, n)
    ELSE ensureEach(rows \cup {[seedKeys[j] EXCEPT !.id = cryptoRandomId(n)]},
                    have, j + 1, n + 1)

ensureSeedKeys(d, n) ==
    LET have == {r.key : r \in d.localizations}
        r == ensureEach(d.localizations, have, 1, n)
    IN  [db |-> [d EXCEPT !.localizations = r.rows], n |-> r.n]

\* seedInitialData on the freshly created tables
seedInitialData(d) == [d EXCEPT !.localizations = initialData]

\* initializeDatabase: load the stored snapshot when there is one, otherwise
\* create and seed; the database is saved at the end
initializeDatabase(ls, n) ==
    IF ls.localizations_db.present
    THEN ensureSeedKeys(Import(ls.localizations_db), n)
    ELSE [db |-> seedInitialData([open |-> TRUE, localizations |-> {}, components |-> {}]),
          n |-> n]

(***************************************************************************)
(* Store operations: the database `d` and the storage `ls` of the calling  *)
(* context go in, [db, ls, error] comes out; `error` is a thrown exception. *)
(* `ok` is whether the storage accepts a write during the call.            *)
(***************************************************************************)
Threw(d, ls) == [db |-> d, ls |-> ls, error |-> TRUE]

\* mutant: a refused storage write makes the store call throw
Saved_Throws(d, ls, ok) ==
    [db |-> d, ls |-> saveDatabaseToLocalStorage(d, ls, ok), error |-> ~ok]

Saved(d, ls, ok) ==
    [db |-> d, ls |-> saveDatabaseToLocalStorage(d, ls, ok), error |-> FALSE]

\* mutant: the snapshot is not written after the UPDATE
updateLocalization_NoSave(d, ls, id, field, value, ok) ==
    IF field \notin validFields
    THEN Threw(d, ls)
    ELSE LET r == UpdateWhereId(d.localizations, id, field, value)
         IN  IF r.error THEN Threw(d, ls)
             ELSE [db |-> [d EXCEPT !.localizations = r.rows], ls |-> ls,
                   error |-> FALSE]

\* mutant: the field name is not validated
updateLocalization_NoValidation(d, ls, id, field, value, ok) ==
    LET r == UpdateWhereId(d.localizations, id,
                           IF field \in validFields \cup {"id"} THEN field ELSE "en",
                           value)
    IN  IF r.error THEN Threw(d, ls)
        ELSE Saved([d EXCEPT !.localizations = r.rows], ls, ok)

\* mutant: every locale column is written, an absent one as the empty string
updateLocalizationByKey_AllFields(d, ls, key, translations, ok) ==
    LET updates == [f \in translationFields |->
                      IF f \in DOMAIN translations THEN translations[f] ELSE ""]
    IN  IF DOMAIN translations \cap translationFields = {}
        THEN [db |-> d, ls |-> ls, error |-> FALSE]
        ELSE LET r == UpdateWhereKey(d.localizations, key, updates)
             IN  Saved([d EXCEPT !.localizations = r.rows], ls, ok)

\* mutant: the locale is not validated, an unknown column reads as empty
getTranslations_NoValidation(d, locale) ==
    [error |-> FALSE,
     map |-> [k \in {r.key : r \in d.localizations} |->
                IF locale \in validLocales
                THEN (CHOOSE r \in d.localizations : r.key = k)[locale]
                ELSE ""]]

createLocalization(d, ls, entry, ok) ==
    LET r == InsertOrIgnore(d.localizations, entry)
    IN  Saved([d EXCEPT !.localizations = r.rows], ls, ok)

updateLocalization(d, ls, id, field, value, ok) ==
    IF field \notin validFields
    THEN Threw(d, ls)
    ELSE LET r == UpdateWhereId(d.localizations, id, field, value)
         IN  IF r.error THEN Threw(d, ls)
             ELSE Saved([d EXCEPT !.localizations = r.rows], ls, ok)

\* `translations` is a function whose domain is the set of fields the caller
\* passed (a field left out is `undefined` in the source)
updateLocalizationByKey(d, ls, key, translations, ok) ==
    LET updates == [f \in DOMAIN translations \cap translationFields |-> translations[f]]
    IN  IF DOMAIN updates = {}
        THEN [db |-> d, ls |-> ls, error |-> FALSE]
        ELSE LET r == UpdateWhereKey(d.localizations, key, updates)
             IN  Saved([d EXCEPT !.localizations = r.rows], ls, ok)

deleteLocalization(d, ls, id, ok) ==
    LET r == DeleteWhereId(d.localizations, id)
    IN  Saved([d EXCEPT !.localizations = r.rows], ls, ok)

\* SELECT key, <locale> FROM localizations, folded into a key -> value map;
\* `(row[1] as string) || ""` maps a NULL column to the empty string
getTranslations(d, locale) ==
    IF locale \notin validLocales
    THEN [error |-> TRUE, map |-> <<>>]
    ELSE [error |-> FALSE,
          map |-> [k \in {r.key : r \in d.localizations} |->
                      (CHOOSE r \in d.localizations : r.key = k)[locale]]]

(***************************************************************************)
(* Calls into the store from a context, as actions                         *)
(***************************************************************************)
\* what lastOp records of a call: its arguments, whether the storage accepted
\* writes, whether it threw, and the value it returned
Op(n, op, c, id, key, field, value, translations, ok, error, result) ==
    [n |-> n, op |-> op, ctx |-> c, id |-> id, key |-> key, field |-> field,
     value |-> value, translations |-> translations, ok |-> ok,
     error |-> error, result |-> result]

\* a write that changes a storage value raises a 'storage' event in every other
\* context; only a mounted preview's listener is modelled
Notify(c, ls) ==
    IF ls = localStorage THEN storageEvents
    ELSE storageEvents \cup {o \in Contexts \ {c} : preview[o].mounted}

Commit(c, r) ==
    /\ db' = [db EXCEPT ![c] = r.db]
    /\ localStorage' = r.ls

\* `if (!db) await initializeDatabase()`: the first store call of a context
InitializeDatabase(c, ok) ==
    /\ ~db[c].open
    /\ LET r == initializeDatabase(localStorage, idCounter)
       IN  /\ Commit(c, Saved(r.db, localStorage, ok))
           /\ idCounter' = r.n
    /\ UNCHANGED <<now, lastOp, editorVars, tableVars>>
    /\ storageEvents' = Notify(c, localStorage')
    /\ UNCHANGED preview

\* a page load: the module-level `db` starts as null again
Reload(c) ==
    /\ db[c].open /\ idCounter < MaxIds
    /\ db' = [db EXCEPT ![c] = NoDb]
    /\ UNCHANGED <<localStorage, now, lastOp, idCounter, editorVars, tableVars>>
    /\ UNCHANGED previewVars

LocalizationDB_create(c, entry, ok) ==
    /\ db[c].open /\ lastOp.n < MaxOps
    /\ LET r == createLocalization(db[c], localStorage, entry, ok)
       IN  /\ Commit(c, r)
           /\ lastOp' = Op(lastOp.n + 1, "create", c, entry.id, entry.key, "", "",
                           <<>>, ok, r.error, <<>>)
    /\ UNCHANGED <<now, idCounter, editorVars, tableVars>>
    /\ storageEvents' = Notify(c, localStorage')
    /\ UNCHANGED preview

LocalizationDB_update(c, id, field, value, ok) ==
    /\ db[c].open /\ lastOp.n < MaxOps
    /\ LET r == updateLocalization(db[c], localStorage, id, field, value, ok)
       IN  /\ Commit(c, r)
           /\ lastOp' = Op(lastOp.n + 1, "update", c, id, "", field, value,
                           <<>>, ok, r.error, <<>>)
    /\ UNCHANGED <<now, idCounter, editorVars, tableVars>>
    /\ storageEvents' = Notify(c, localStorage')
    /\ UNCHANGED preview

Call_updateLocalizationByKey(c, key, translations, ok) ==
    /\ db[c].open /\ lastOp.n < MaxOps
    /\ LET r == updateLocalizationByKey(db[c], localStorage, key, translations, ok)
       IN  /\ Commit(c, r)
           /\ lastOp' = Op(lastOp.n + 1, "updateByKey", c, "", key, "", "",
                           translations, ok, r.error, <<>>)
    /\ UNCHANGED <<now, idCounter, editorVars, tableVars>>
    /\ storageEvents' = Notify(c, localStorage')
    /\ UNCHANGED preview

LocalizationDB_delete(c, id, ok) ==
    /\ db[c].open /\ lastOp.n < MaxOps
    /\ LET r == deleteLocalization(db[c], localStorage, id, ok)
       IN  /\ Commit(c, r)
           /\ lastOp' = Op(lastOp.n + 1, "delete", c, id, "", "", "",
                           <<>>, ok, r.error, <<>>)
    /\ UNCHANGED <<now, idCounter, editorVars, tableVars>>
    /\ storageEvents' = Notify(c, localStorage')
    /\ UNCHANGED preview

LocalizationDB_getTranslations(c, locale) ==
    /\ db[c].open /\ lastOp.n < MaxOps
    /\ LET r == getTranslations(db[c], locale)
       IN  lastOp' = Op(lastOp.n + 1, "getTranslations", c, "", "", locale, "",
                        <<>>, FALSE, r.error, r.map)
    /\ UNCHANGED <<db, localStorage, now, idCounter, editorVars, tableVars>>
    /\ UNCHANGED previewVars

(***************************************************************************)
(* Inputs of the store specification                                       *)
(***************************************************************************)
CreateInputs ==
    { LocalizationEntry(id, key, "New", es, "", "", "", "") :
        id \in {"u1", "2"}, key \in {"new.key", "button.submit"}, es \in {"Nuevo"} }
UpdateIds == {"2", "u1"}
UpdateFields == {"key", "fr", "id", "created_at"}
UpdateValues == {"", "navigation.home"}
ByKeyKeys == {"button.submit", "missing.key"}
ByKeyInputs ==
    { <<>>,
      [f \in {"es"} |-> "Hola"],
      [f \in {"fr", "ja"} |-> IF f = "fr" THEN "" ELSE "Konnichiwa"],
      [f \in translationFields |-> "T"] }
LocaleInputs == {"en", "ja", "it", "EN"}

NoResponse == [hasTranslations |-> FALSE, translations |-> <<>>]
NoFailure == [cause |-> "", error |-> ""]
\* JavaScript values the preview's runtime handles
JsString(s) == [type |-> "string", value |-> s]
JsFunction(name) == [type |-> "function", value |-> name]
JsUndefined == [type |-> "undefined", value |-> ""]
NoCall == [k |-> "", v |-> JsUndefined]

\* the code and the locale the last finished run of the rewrite effect was
\* started with
NoBuild == [code |-> "", locale |-> ""]
NoPreview ==
    [mounted |-> FALSE, componentCode |-> "", currentLocale |-> "en", lastVersion |-> 0,
     version |-> 0, dirty |-> FALSE, shown |-> NoCall, out |-> "", entries |-> <<>>, TX |-> <<>>, EN |-> <<>>,
     built |-> NoBuild, pending |-> <<>>, finished |-> 0]
NoToast == [message |-> "", type |-> ""]
IdleEditor ==
    [pc |-> "idle", code |-> "", newKeys |-> <<>>, resolved |-> <<>>, outcome |-> "none",
     response |-> NoResponse, failure |-> NoFailure]
NoCell == [entryId |-> "", field |-> ""]

Init ==
    /\ db = [c \in Contexts |-> NoDb]
    /\ localStorage = [localizations_db |-> NoSnapshot, localizations_db_version |-> 0]
    /\ now = 1
    /\ lastOp = Op(0, "none", "A", "", "", "", "", <<>>, FALSE, FALSE, <<>>)
    /\ idCounter = 0
    /\ editor = IdleEditor
    /\ messages = <<>>
    /\ messageCounter = 0
    /\ processedMessageIds = {}
    /\ runs = <<>>
    /\ effectDue = FALSE
    /\ currentComponent = ""
    /\ currentComponentId = ""
    /\ lastToast = NoToast
    /\ requests = <<>>
    /\ events = 0
    /\ entries = <<>>
    /\ editingCell = NoCell
    /\ editValue = ""
    /\ preview = [c \in Contexts |-> NoPreview]
    /\ storageEvents = {}

StoreCtx == {"A"}

NextStore ==
    \E c \in StoreCtx :
        \/ \E ok \in BOOLEAN : InitializeDatabase(c, ok)
        \/ Reload(c)
        \/ \E e \in CreateInputs, ok \in BOOLEAN : LocalizationDB_create(c, e, ok)
        \/ \E id \in UpdateIds, f \in UpdateFields, v \in UpdateValues, ok \in BOOLEAN :
              LocalizationDB_update(c, id, f, v, ok)
        \/ \E k \in ByKeyKeys, t \in ByKeyInputs, ok \in BOOLEAN :
              Call_updateLocalizationByKey(c, k, t, ok)
        \/ \E id \in UpdateIds, ok \in BOOLEAN : LocalizationDB_delete(c, id, ok)
        \/ \E l \in LocaleInputs : LocalizationDB_getTranslations(c, l)

SpecStore == Init /\ [][NextStore]_vars

(***************************************************************************)
(* Two tabs: each context opens its own database from the shared storage   *)
(* and edits, creates and deletes rows through the store; the storage      *)
(* accepts every write                                                     *)
(***************************************************************************)
\* what the user of context c types, the row they add
TabValue(c) == "edit by " \o c
TabEntry(c) == LocalizationEntry("id." \o c, "tab." \o c, "Tab " \o c, "", "", "", "", "")

NextTabs ==
    \E c \in Contexts :
        \/ InitializeDatabase(c, TRUE)
        \/ Reload(c)
        \/ LocalizationDB_create(c, TabEntry(c), TRUE)
        \/ \E id \in {"2", "4"} : LocalizationDB_update(c, id, "es", TabValue(c), TRUE)
        \/ \E id \in {"2", "4"} : LocalizationDB_delete(c, id, TRUE)

SpecTabs == Init /\ [][NextTabs]_vars

(***************************************************************************)
(* Strings, as the editor's JavaScript treats them                         *)
(***************************************************************************)
LowerAlpha == "abcdefghijklmnopqrstuvwxyz"
UpperAlpha == "ABCDEFGHIJKLMNOPQRSTUVWXYZ"
DigitChars == "0123456789"

Char(s, i) == SubSeq(s, i, i)
CharsOf(s) == {Char(s, i) : i \in 1..Len(s)}
LowerSet == CharsOf(LowerAlpha)
UpperSet == CharsOf(UpperAlpha)
DigitSet == CharsOf(DigitChars)
WhiteSet == {" ", "\n", "\t"}                                   \* \s
QuoteSet == {"'", "\""}                                          \* ['"]
WordSet == LowerSet \cup UpperSet \cup DigitSet \cup {"_"}       \* \w
\* [A-Za-z0-9 ,.!?:;\-\$\/]
TextClass == LowerSet \cup UpperSet \cup DigitSet
             \cup {" ", ",", ".", "!", "?", ":", ";", "-", "$", "/"}
\* [a-zA-Z0-9_.-]
KeyClass == LowerSet \cup UpperSet \cup DigitSet \cup {"_", ".", "-"}

PosIn(c, s) == CHOOSE i \in 1..Len(s) : Char(s, i) = c
lowerChar(c) == IF c \in UpperSet THEN Char(LowerAlpha, PosIn(c, UpperAlpha)) ELSE c
upperChar(c) == IF c \in LowerSet THEN Char(UpperAlpha, PosIn(c, LowerAlpha)) ELSE c

RECURSIVE toLowerCase(_)
toLowerCase(s) == IF s = "" THEN "" ELSE lowerChar(Head(s)) \o toLowerCase(Tail(s))

RECURSIVE trimStart(_)
trimStart(s) == IF s # "" /\ Head(s) \in WhiteSet THEN trimStart(Tail(s)) ELSE s
RECURSIVE trimEnd(_)
trimEnd(s) ==
    IF s # "" /\ Char(s, Len(s)) \in WhiteSet THEN trimEnd(SubSeq(s, 1, Len(s) - 1)) ELSE s
trim(s) == trimEnd(trimStart(s))

\* s.slice(0, n)
slice0(s, n) == IF Len(s) <= n THEN s ELSE SubSeq(s, 1, n)

\* the text at position i of s is w
At(s, i, w) == i >= 1 /\ i + Len(w) - 1 <= Len(s) /\ SubSeq(s, i, i + Len(w) - 1) = w
includes(s, w) == \E i \in 1..Len(s) : At(s, i, w)

\* length of the longest run of characters of `class` that starts at position i
RECURSIVE RunLen(_, _, _)
RunLen(s, i, class) ==
    IF i <= Len(s) /\ Char(s, i) \in class THEN 1 + RunLen(s, i + 1, class) ELSE 0

\* code.lastIndexOf("\n", idx) + 1 and code.indexOf("\n", idx), 1-based:
\* the first and the last position of the line that holds position idx
Min(S) == CHOOSE x \in S : \A y \in S : x <= y
Max(S) == CHOOSE x \in S : \A y \in S : x >= y
\* the element of a one-element set; The({e(x) : x \in {v}}) is e(v) with v
\* worked out once
The(S) == CHOOSE x \in S : TRUE
LineStart(s, idx) == Max({0} \cup {j \in 1..idx : Char(s, j) = "\n"}) + 1
LineEnd(s, idx) == Min({Len(s) + 1} \cup {j \in idx..Len(s) : Char(s, j) = "\n"}) - 1
LineOf(s, idx) == SubSeq(s, LineStart(s, idx), LineEnd(s, idx))

\* \b before position i / after position j of s
BoundaryBefore(s, i) == i = 1 \/ Char(s, i - 1) \notin WordSet
BoundaryAfter(s, j) == j = Len(s) \/ Char(s, j + 1) \notin WordSet

\* /\bw\b/.test(s)
TestWord(s, w) ==
    \E i \in 1..Len(s) :
        At(s, i, w) /\ BoundaryBefore(s, i) /\ BoundaryAfter(s, i + Len(w) - 1)

\* /\b(className|href)=/.test(s)
TestAttr(s) ==
    \E i \in 1..Len(s), w \in {"className=", "href="} : At(s, i, w) /\ BoundaryBefore(s, i)

\* /\bexport\s+(default\s+)?function/.test(s)
TestExportFunction(s) ==
    \E i \in 1..Len(s) :
        /\ At(s, i, "export") /\ BoundaryBefore(s, i)
        /\ LET j == i + 6
               w1 == RunLen(s, j, WhiteSet)
               k == j + w1
           IN  /\ w1 >= 1
               /\ \/ At(s, k, "function")
                  \/ /\ At(s, k, "default")
                     /\ RunLen(s, k + 7, WhiteSet) >= 1
                     /\ At(s, k + 7 + RunLen(s, k + 7, WhiteSet), "function")

\* /return\s+\{/.test(s)
TestReturnObject(s) ==
    \E i \in 1..Len(s) :
        /\ At(s, i, "return")
        /\ RunLen(s, i + 6, WhiteSet) >= 1
        /\ At(s, i + 6 + RunLen(s, i + 6, WhiteSet), "{")

\* text.replace(/[^a-z0-9]+/g, "."): `inRun` is whether the previous character
\* already belonged to the run being replaced
RECURSIVE replaceNonAlnumRuns(_, _)
replaceNonAlnumRuns(s, inRun) ==
    IF s = "" THEN ""
    ELSE IF Head(s) \in LowerSet \cup DigitSet
         THEN Head(s) \o replaceNonAlnumRuns(Tail(s), FALSE)
         ELSE (IF inRun THEN "" ELSE ".") \o replaceNonAlnumRuns(Tail(s), TRUE)

\* s.replace(/^\.+|\.+$/g, "")
RECURSIVE stripDotsStart(_)
stripDotsStart(s) == IF s # "" /\ Head(s) = "." THEN stripDotsStart(Tail(s)) ELSE s
RECURSIVE stripDotsEnd(_)
stripDotsEnd(s) ==
    IF s # "" /\ Char(s, Len(s)) = "." THEN stripDotsEnd(SubSeq(s, 1, Len(s) - 1)) ELSE s

SlugLength == 40

generateKeyFromText(text) ==
    LET base == stripDotsEnd(stripDotsStart(replaceNonAlnumRuns(toLowerCase(text), FALSE)))
    IN  "auto." \o slice0(base, SlugLength)

\* key.split(".").slice(-1)[0]
RECURSIVE lastSegment(_)
lastSegment(key) ==
    IF ~includes(key, ".") THEN key
    ELSE lastSegment(SubSeq(key, PosIn(".", key) + 1, Len(key)))

\* s.replace(/_/g, " ")
RECURSIVE underscoresToSpaces(_)
underscoresToSpaces(s) ==
    IF s = "" THEN ""
    ELSE (IF Head(s) = "_" THEN " " ELSE Head(s)) \o underscoresToSpaces(Tail(s))

\* s.replace(/\b\w/g, c => c.toUpperCase()): `prevWord` is whether the
\* character before the head of s is a word character
RECURSIVE capitalizeWords(_, _)
capitalizeWords(s, prevWord) ==
    IF s = "" THEN ""
    ELSE (IF ~prevWord /\ Head(s) \in WordSet THEN upperChar(Head(s)) ELSE Head(s))
         \o capitalizeWords(Tail(s), Head(s) \in WordSet)

\* the English text the editor derives from a referenced key
enFromKey(key) == capitalizeWords(underscoresToSpaces(lastSegment(key)), FALSE)

(***************************************************************************)
(* getAllLocalizations: SELECT * FROM localizations ORDER BY key            *)
(***************************************************************************)
\* the characters that occur in keys, in ASCII order
AsciiOrder == " $-./0123456789:ABCDEFGHIJKLMNOPQRSTUVWXYZ_abcdefghijklmnopqrstuvwxyz"

AsciiRank == [c \in CharsOf(AsciiOrder) |-> PosIn(c, AsciiOrder)]

\* a < b in SQLite's BINARY collation
RECURSIVE StrLess(_, _)
StrLess(a, b) ==
    IF b = "" THEN FALSE
    ELSE IF a = "" THEN TRUE
    ELSE IF Head(a) = Head(b) THEN StrLess(Tail(a), Tail(b))
    ELSE AsciiRank[Head(a)] < AsciiRank[Head(b)]

\* ORDER BY key: the k-th row is the one with k - 1 rows before it (keys are
\* unique)
SortByKey(rows) ==
    [k \in 1..Cardinality(rows) |->
        CHOOSE r \in rows : Cardinality({q \in rows : StrLess(q.key, r.key)}) = k - 1]

getAllLocalizations(d) == SortByKey(d.localizations)

(***************************************************************************)
(* ensureLocalizationsForCode: candidate texts and referenced keys         *)
(***************************************************************************)
\* members every object literal inherits from Object.prototype
ObjectPrototypeNames == {"constructor", "toString", "valueOf", "hasOwnProperty"}

aliasToKey ==
    [t \in {"home", "about", "services", "contact"} |-> "navigation." \o t]

\* what `aliasToKey[lower]` is when lower names an inherited member: a
\* function, truthy and not a key
InheritedMember(name) == "function " \o name

banned == {"react", "use client"}

isImportLine(line) == TestWord(line, "import") \/ TestWord(line, "from")

isCodeLine(line) ==
    \/ TestAttr(line)
    \/ TestWord(line, "http")
    \/ TestExportFunction(line)
    \/ TestReturnObject(line)

QuoteMin == 2
QuoteMax == 80

\* the loop over quoteRegex = /['"][A-Za-z0-9 ,.!?:;\-\$\/]{2,80}['"]/g from
\* position i on; `acc` is the candidates Set so far, in insertion order
RECURSIVE ScanCandidates(_, _, _)
ScanCandidates(code, i, acc) ==
    IF i > Len(code) THEN acc
    ELSE IF Char(code, i) \notin QuoteSet
    THEN ScanCandidates(code,
                        Min({Len(code) + 1}
                            \cup {j \in i..Len(code) : Char(code, j) \in QuoteSet}),
                        acc)
    ELSE LET run == RunLen(code, i + 1, TextClass)
             close == i + 1 + run
             matched == /\ run >= QuoteMin /\ run <= QuoteMax
                        /\ close <= Len(code) /\ Char(code, close) \in QuoteSet
         IN  IF ~matched THEN ScanCandidates(code, i + 1, acc)
             ELSE LET txt == trim(SubSeq(code, i + 1, close - 1))
                      line == LineOf(code, i)
                      keep == /\ Len(txt) >= 2
                              /\ CharsOf(txt) \cap (LowerSet \cup UpperSet) # {}
                              /\ ~isCodeLine(line)
                              /\ ~isImportLine(line)
                              /\ toLowerCase(txt) \notin banned
                      seen == \E j \in 1..Len(acc) : acc[j] = txt
                  IN  ScanCandidates(code, close + 1,
                                     IF keep /\ ~seen THEN Append(acc, txt) ELSE acc)

candidatesOf(code) == ScanCandidates(code, 1, <<>>)

\* one attempt of keyRegex = /(?:t|__i18n)\(\s*['"]([a-zA-Z0-9_.-]+)['"]\s*\)/ at
\* position i: [hit, key, next]
KeyRefAt(code, i) ==
    LET open == IF At(code, i, "t(") THEN i + 2
                ELSE IF At(code, i, "__i18n(") THEN i + 7 ELSE 0
        q1 == open + RunLen(code, open, WhiteSet)
        run == RunLen(code, q1 + 1, KeyClass)
        q2 == q1 + 1 + run
        cl == q2 + 1 + RunLen(code, q2 + 1, WhiteSet)
        hit == /\ open > 0
               /\ q1 <= Len(code) /\ Char(code, q1) \in QuoteSet
               /\ run >= 1
               /\ q2 <= Len(code) /\ Char(code, q2) \in QuoteSet
               /\ At(code, cl, ")")
    IN  IF hit THEN [hit |-> TRUE, key |-> SubSeq(code, q1 + 1, q2 - 1), next |-> cl + 1]
        ELSE [hit |-> FALSE, key |-> "", next |-> i + 1]

\* the keys keyRegex captures, in the order of the source text
RECURSIVE ScanKeyRefs(_, _)
ScanKeyRefs(code, i) ==
    IF i > Len(code) THEN <<>>
    ELSE IF ~(At(code, i, "t(") \/ At(code, i, "__i18n("))
    THEN ScanKeyRefs(code,
                     Min({Len(code) + 1}
                         \cup {j \in i + 1..Len(code) :
                                 At(code, j, "t(") \/ At(code, j, "__i18n(")}))
    ELSE LET m == KeyRefAt(code, i)
         IN  (IF m.hit THEN <<m.key>> ELSE <<>>) \o ScanKeyRefs(code, m.next)

keyRefsOf(code) == ScanKeyRefs(code, 1)

(***************************************************************************)
(* ensureLocalizationsForCode: resolution of a candidate against the        *)
(* snapshot `existing` read at the start                                    *)
(***************************************************************************)
\* new Map(existing.map(e => [f(e.en), e.key])).get(text): the last entry of
\* the list with that text wins
RECURSIVE MapGet(_, _, _)
MapGet(existing, text, lower) ==
    IF existing = <<>> THEN ""
    ELSE LET e == existing[Len(existing)]
             en == IF lower THEN toLowerCase(trim(e.en)) ELSE trim(e.en)
         IN  IF en = text THEN e.key
             ELSE MapGet(SubSeq(existing, 1, Len(existing) - 1), text, lower)

MapHas(existing, text, lower) ==
    \E j \in 1..Len(existing) :
        (IF lower THEN toLowerCase(trim(existing[j].en)) ELSE trim(existing[j].en)) = text

\* the key an existing mapping gives the text, "" when there is none (an
\* empty key is falsy and does not count as a mapping)
mappedKeyOf_ExactFirst(existing, text) ==
    LET lower == toLowerCase(text)
        k1 == IF MapHas(existing, text, FALSE) THEN MapGet(existing, text, FALSE) ELSE ""
        k2 == IF k1 = "" /\ lower \in DOMAIN aliasToKey THEN aliasToKey[lower] ELSE k1
        k3 == IF k2 = "" /\ MapHas(existing, lower, TRUE)
              THEN MapGet(existing, lower, TRUE) ELSE k2
    IN  k3

mappedKeyOf(existing, text) ==
    LET lower == toLowerCase(text)
        k1 == IF lower \in DOMAIN aliasToKey THEN aliasToKey[lower]
              ELSE IF lower \in ObjectPrototypeNames THEN InheritedMember(lower)
              ELSE ""
        k2 == IF k1 = "" /\ MapHas(existing, text, FALSE)
              THEN MapGet(existing, text, FALSE) ELSE k1
        k3 == IF k2 = "" /\ MapHas(existing, lower, TRUE)
              THEN MapGet(existing, lower, TRUE) ELSE k2
    IN  k3

HasKey(list, key) == \E j \in 1..Len(list) : list[j].key = key

\* let i = 1; while (existing.find(e => e.key === finalKey)) { i += 1; finalKey = `${key}.${i}` }
RECURSIVE suffixed(_, _, _)
suffixed(list, key, i) ==
    LET finalKey == IF i = 1 THEN key ELSE key \o "." \o ToString(i)
    IN  IF HasKey(list, finalKey) THEN suffixed(list, key, i + 1) ELSE finalKey

(***************************************************************************)
(* components table                                                        *)
(***************************************************************************)
\* INSERT INTO components (id, name, code, session_id), then the snapshot
createComponent(d, ls, rec, ok) ==
    Saved([d EXCEPT !.components = d.components \cup {rec}], ls, ok)

\* UPDATE components SET code = ?, name = ? WHERE id = ?, then the snapshot
updateComponent(d, ls, id, code, ok) ==
    Saved([d EXCEPT !.components =
              {IF r.id = id THEN [r EXCEPT !.code = code] ELSE r : r \in d.components}],
          ls, ok)

(***************************************************************************)
(* Editor: ensureId and ensureLocalizationsForCode.  The awaits on store   *)
(* calls resolve without yielding to another task once the database is     *)
(* open, so a run is one step up to the fetch and one step from the        *)
(* response on.                                                            *)
(***************************************************************************)
\* newKeys.push({key, en}); await createLocalization({id: randomUUID(), key, en,
\* es: "", ...}); existing.push({id: "", key, en, ...})
mint(st, key, en, ok) ==
    LET r == createLocalization(st.db, st.ls,
                 LocalizationEntry(cryptoRandomId(st.n), key, en, "", "", "", "", ""), ok)
    IN  [st EXCEPT !.db = r.db, !.ls = r.ls, !.n = st.n + 1,
                   !.existing = Append(st.existing,
                                       LocalizationEntry("", key, en, "", "", "", "", "")),
                   !.newKeys = Append(st.newKeys, [key |-> key, en |-> en])]

\* the key the loop settles on for a text (mappedKey or finalKey) is noted in
\* st.resolved
resolvedAs(st, text, key) ==
    [st EXCEPT !.resolved = Append(@, [text |-> text, key |-> key])]

\* `for (const text of candidates)`: existing0 is the list the two Maps were
\* built from
RECURSIVE resolveCandidates(_, _, _, _, _)
resolveCandidates(existing0, st, cands, j, ok) ==
    IF j > Len(cands) THEN st
    ELSE CHOOSE r \in
           { resolveCandidates(existing0, next, cands, j + 1, ok) :
               next \in
                 { IF mappedKey # ""
                   THEN resolvedAs(st, cands[j], mappedKey)
                   ELSE resolvedAs(mint(st, finalKey, cands[j], ok), cands[j], finalKey) :
                     mappedKey \in {mappedKeyOf(existing0, cands[j])},
                     finalKey \in {suffixed(st.existing, generateKeyFromText(cands[j]), 1)} } } :
           TRUE

\* mutant: referenced keys are left as they are
resolveKeyRefs_Skip(st, refs, j, ok) == st

\* `while ((km = keyRegex.exec(code)) !== null)`
RECURSIVE resolveKeyRefs(_, _, _, _)
resolveKeyRefs(st, refs, j, ok) ==
    IF j > Len(refs) THEN st
    ELSE IF HasKey(st.existing, refs[j]) THEN resolveKeyRefs(st, refs, j + 1, ok)
    ELSE resolveKeyRefs(mint(st, refs[j], enFromKey(refs[j]), ok), refs, j + 1, ok)

\* component code of an assistant message: two texts with the same slug and a
\* referenced key / an import line and a text the seed data already has
CodeSignUp == "const A = () => <b>{'Sign up'}{'Sign-up'}{t('cta.buy_now')}</b>"
CodeSubmit == "import React from 'react'\nconst B = () => <button>{'Submit'}</button>"
Codes == {CodeSignUp, CodeSubmit}
\* a text next to a referenced key from whose last segment the same English
\* text is derived
CodeBuyNow == "const C = () => <b>{'Buy Now'}{t('cta.buy_now')}</b>"
\* an alias, an exact match, a match but for case, a word that names an
\* inherited member, and a referenced key whose derived text is an alias word
CodeHome ==
    "const D = () => <b>{'Home'}{'Submit'}{'SUBMIT'}{'Constructor'}{t('social.home')}</b>"
RunCodes == {CodeSignUp, CodeBuyNow, CodeHome}
\* two texts with the same slug, each in a message of its own
CodeUp == "const F = () => <b>{'Sign up'}</b>"
CodeUp2 == "const G = () => <b>{'Sign-up'}</b>"
\* a key that stands only in a call of t
CodeNav == "const N = () => <b>{t('nav.home')}</b>"
SessionCodes == {CodeUp, CodeUp2, CodeNav}

\* what the two regular-expression loops find in each code (the loops read
\* nothing but the code)
extracted ==
    [code \in Codes \cup RunCodes \cup SessionCodes |-> [candidates |-> candidatesOf(code), keyRefs |-> keyRefsOf(code)]]

\* steps 1 and 2 of ensureLocalizationsForCode
mintKeys(d, ls, n, code, ok) ==
    LET existing == getAllLocalizations(d)
        st0 == [db |-> d, ls |-> ls, n |-> n, existing |-> existing, newKeys |-> <<>>,
                resolved |-> <<>>]
        st1 == resolveCandidates(existing, st0, extracted[code].candidates, 1, ok)
    IN  resolveKeyRefs(st1, extracted[code].keyRefs, 1, ok)

\* mutant: the provider's texts are looked up without regard to case
mergeUpdates_IgnoreCase(trans, en) ==
    [l \in {l \in translationFields \cap DOMAIN trans :
              \E t \in DOMAIN trans[l] :
                 toLowerCase(t) = toLowerCase(en) /\ trans[l][t] # ""} |->
        trans[l][CHOOSE t \in DOMAIN trans[l] :
                    toLowerCase(t) = toLowerCase(en) /\ trans[l][t] # ""]]

\* `if (trans.es?.[item.en]) updates.es = trans.es[item.en]`, for the five locales
mergeUpdates(trans, en) ==
    [l \in {l \in translationFields \cap DOMAIN trans :
              en \in DOMAIN trans[l] /\ trans[l][en] # ""} |-> trans[l][en]]

\* `for (const item of newKeys)`: one updateLocalizationByKey per item that
\* has at least one translation
RECURSIVE mergeItems(_, _, _, _, _)
mergeItems(r, newKeys, j, trans, ok) ==
    IF j > Len(newKeys) THEN r
    ELSE LET updates == mergeUpdates(trans, newKeys[j].en)
         IN  mergeItems(IF DOMAIN updates = {} THEN r
                        ELSE updateLocalizationByKey(r.db, r.ls, newKeys[j].key, updates, ok),
                        newKeys, j + 1, trans, ok)

Toast(message, type) == [message |-> message, type |-> type]

\* mutant: the failure is only logged
failureToast_Silent(shown) == shown

\* the catch block of the translate call: what showToast has shown afterwards
failureToast(shown) ==
    Toast("Auto-translation failed. Translations can be added manually.", "warning")

\* ComponentPreview of context c runs its rewrite effect again when the
\* componentCode prop changed or a listener called setVersion
Rerender(c, changed) ==
    [preview EXCEPT ![c].dirty = @ \/ (preview[c].mounted /\ changed)]

\* mutant: the listener records what it saw without touching the state the
\* rewrite effect depends on
setVersion_Skip(pv, c) == pv

\* `setVersion(v => v + 1)` in a listener of context c's preview: the rewrite
\* effect, which depends on version, is due again
setVersion(pv, c) ==
    IF pv[c].mounted
    THEN [pv EXCEPT ![c].version = @ + 1, ![c].dirty = TRUE]
    ELSE pv

\* mutant: one request per minted key
translateRequests_PerKey(sent, newKeys) ==
    sent \o [j \in 1..Len(newKeys) |-> <<newKeys[j]>>]

\* step 3 of ensureLocalizationsForCode: `if (newKeys.length > 0)` one POST to
\* /api/translate whose body is { translations: newKeys }; sent is the list of
\* bodies posted so far
translateRequests(sent, newKeys) ==
    IF newKeys = <<>> THEN sent ELSE Append(sent, newKeys)

\* the effect on an assistant message that carries component code (a
\* behaviour follows the editor through one such message)
Editor_ensureId(code, ok) ==
    /\ db["A"].open
    /\ editor.pc = "idle"
    /\ LET fresh == currentComponentId = ""
           id == IF fresh THEN cryptoRandomId(idCounter) ELSE currentComponentId
           r1 == IF fresh
                 THEN createComponent(db["A"], localStorage, [id |-> id, code |-> code], ok)
                 ELSE updateComponent(db["A"], localStorage, id, code, ok)
           st == mintKeys(r1.db, r1.ls, idCounter + (IF fresh THEN 1 ELSE 0), code, ok)
       IN  /\ currentComponentId' = id
           /\ db' = [db EXCEPT !["A"] = st.db]
           /\ localStorage' = st.ls
           /\ idCounter' = st.n
           /\ IF st.newKeys = <<>>
              THEN /\ editor' = [pc |-> "done", code |-> code, newKeys |-> <<>>,
                                 resolved |-> st.resolved,
                                 outcome |-> "none", response |-> NoResponse, failure |-> NoFailure]
                   /\ currentComponent' = code
              ELSE /\ editor' = [pc |-> "fetching", code |-> code, newKeys |-> st.newKeys,
                                 resolved |-> st.resolved,
                                 outcome |-> "none", response |-> NoResponse, failure |-> NoFailure]
                   /\ currentComponent' = currentComponent
           /\ requests' = translateRequests(requests, st.newKeys)
    /\ UNCHANGED <<now, lastOp, sessionVars, lastToast, events, tableVars>>
    /\ storageEvents' = Notify("A", localStorage')
    /\ preview' = Rerender("A", currentComponent' # currentComponent)

\* what can go wrong with the POST: the fetch rejects ("transport"), the
\* route's call of the provider throws ("providerError"), the route cannot
\* parse the provider's text ("providerParse"), or response.json() rejects
\* in the editor ("parse")
FailureKinds == {"transport", "providerError", "providerParse", "parse"}

\* the route's answer when it fails: the inner catch (parse) and the outer
\* catch (everything else) both answer with status 500; the outer one's
\* error is the message of what was thrown, "Translation failed" without one
routeFailure(kind) ==
    IF kind = "providerParse"
    THEN [status |-> 500, error |-> "Failed to parse translation response",
          details |-> TRUE]
    ELSE [status |-> 500, error |-> "Translation failed", details |-> FALSE]

\* the error that reaches `catch (error)` in ensureLocalizationsForCode; for
\* a response that is not ok the body is logged and the error made from the
\* status alone
caughtError(kind) ==
    CASE kind = "transport" -> "TypeError: Failed to fetch"
      [] kind = "parse" -> "SyntaxError: Unexpected token"
      [] OTHER -> "Error: Translation API returned " \o ToString(routeFailure(kind).status)

\* all of them end in the same catch block
Editor_translateFailed(kind) ==
    /\ editor.pc = "fetching" /\ kind \in FailureKinds
    /\ lastToast' = failureToast(lastToast)
    /\ currentComponent' = editor.code
    /\ editor' = [editor EXCEPT !.pc = "done", !.outcome = "failed",
                                 !.failure = [cause |-> kind, error |-> caughtError(kind)]]
    /\ UNCHANGED <<storeVars, sessionVars, currentComponentId, requests, events, tableVars>>
    /\ preview' = Rerender("A", currentComponent' # currentComponent)
    /\ UNCHANGED storageEvents

\* a 200 response whose body parses; `data.hasTranslations` is
\* `data.translations && typeof data.translations === "object"`
Editor_translateResponse(data, ok) ==
    /\ editor.pc = "fetching"
    /\ IF data.hasTranslations
       THEN LET r == mergeItems([db |-> db["A"], ls |-> localStorage, error |-> FALSE],
                                editor.newKeys, 1, data.translations, ok)
            IN  /\ db' = [db EXCEPT !["A"] = r.db]
                /\ \E t \in now..MaxNow :
                      /\ now' = t
                      /\ IF ok
                         THEN /\ localStorage' = [r.ls EXCEPT !.localizations_db_version = t]
                              /\ events' = events + 1
                         ELSE /\ localStorage' = r.ls
                              /\ events' = events
                /\ editor' = [editor EXCEPT !.pc = "done", !.outcome = "merged",
                                             !.response = data]
       ELSE /\ editor' = [editor EXCEPT !.pc = "done", !.outcome = "unexpected",
                                        !.response = data]
            /\ UNCHANGED <<db, localStorage, now, events>>
    /\ currentComponent' = editor.code
    /\ UNCHANGED <<lastOp, idCounter, sessionVars, currentComponentId, lastToast, requests,
                   tableVars>>
    /\ storageEvents' = Notify("A", localStorage')
    /\ preview' = IF events' # events
                  THEN setVersion(Rerender("A", currentComponent' # currentComponent), "A")
                  ELSE Rerender("A", currentComponent' # currentComponent)

(***************************************************************************)
(* LocalizationTable handlers (the table runs in context "A", next to the  *)
(* editor)                                                                 *)
(***************************************************************************)
\* generateId(): Date.now() followed by random characters, never drawn before
generateId(n) == "gen" \o ToString(n + 1)

\* a.key.localeCompare(b.key) < 0 on the characters keys are made of:
\* punctuation sorts before digits, digits before letters, and a letter's
\* case only breaks ties
LocaleOrder == "_-.0123456789aAbBcCdDeEfFgGhHiIjJkKlLmMnNoOpPqQrRsStTuUvVwWxXyYzZ"

RECURSIVE LocaleLess(_, _)
LocaleLess(a, b) ==
    IF b = "" THEN FALSE
    ELSE IF a = "" THEN TRUE
    ELSE IF Head(a) = Head(b) THEN LocaleLess(Tail(a), Tail(b))
    ELSE PosIn(Head(a), LocaleOrder) < PosIn(Head(b), LocaleOrder)

\* [...prev, e].sort(by key): the sort is stable, so e lands behind the rows
\* it does not sort before
RECURSIVE SortEntries(_)
SortEntries(list) ==
    IF Len(list) <= 1 THEN list
    ELSE LET rest == SortEntries(SubSeq(list, 1, Len(list) - 1))
             e == list[Len(list)]
             k == Cardinality({j \in 1..Len(rest) : ~LocaleLess(e.key, rest[j].key)})
         IN  SubSeq(rest, 1, k) \o <<e>> \o SubSeq(rest, k + 1, Len(rest))

RECURSIVE FilterOut(_, _)
FilterOut(list, id) ==
    IF list = <<>> THEN <<>>
    ELSE (IF Head(list).id = id THEN <<>> ELSE <<Head(list)>>) \o FilterOut(Tail(list), id)

\* loadEntries: on mount, on 'localizations-updated' and on storage events
Table_loadEntries ==
    /\ db["A"].open
    /\ entries' = getAllLocalizations(db["A"])
    /\ UNCHANGED <<storeVars, editorVars, editingCell, editValue>>
    /\ UNCHANGED previewVars

\* a click on a cell of a displayed row
Table_handleEdit(j, field) ==
    /\ j \in 1..Len(entries)
    /\ editingCell' = [entryId |-> entries[j].id, field |-> field]
    /\ editValue' = entries[j][field]
    /\ UNCHANGED <<storeVars, editorVars, entries>>
    /\ UNCHANGED previewVars

\* onChange of the cell's input
Table_setEditValue(value) ==
    /\ editingCell # NoCell
    /\ editValue' = value
    /\ UNCHANGED <<storeVars, editorVars, entries, editingCell>>
    /\ UNCHANGED previewVars

\* Enter or blur in the edited cell; lastOp.result keeps which contexts had
\* their store open, which had a preview mounted, and the version marker the
\* call found
Table_handleSave(ok) ==
    /\ editingCell # NoCell
    /\ db["A"].open /\ lastOp.n < MaxOps
    /\ LET r == updateLocalization(db["A"], localStorage, editingCell.entryId,
                                   editingCell.field, editValue, ok)
       IN  /\ db' = [db EXCEPT !["A"] = r.db]
           /\ lastOp' = Op(lastOp.n + 1, "update", "A", editingCell.entryId, "",
                           editingCell.field, editValue, <<>>, ok, r.error,
                           [open |-> {c \in Contexts : db[c].open},
                            mounted |-> {c \in Contexts : preview[c].mounted},
                            before |-> localStorage.localizations_db_version])
           /\ IF r.error
              THEN /\ lastToast' = Toast("Failed to save translation", "error")
                   /\ localStorage' = r.ls
                   /\ UNCHANGED <<now, tableVars>>
              ELSE /\ entries' = [j \in 1..Len(entries) |->
                                    IF entries[j].id = editingCell.entryId
                                    THEN [entries[j] EXCEPT ![editingCell.field] = editValue]
                                    ELSE entries[j]]
                   /\ editingCell' = NoCell
                   /\ editValue' = ""
                   /\ lastToast' = Toast("Translation saved successfully", "success")
                   /\ \E t \in now..MaxNow :
                         /\ now' = t
                         /\ localStorage' =
                              IF ok THEN [r.ls EXCEPT !.localizations_db_version = t]
                              ELSE r.ls
    /\ UNCHANGED <<idCounter, editor, sessionVars, currentComponent, currentComponentId,
                   requests, events>>
    /\ storageEvents' = Notify("A", localStorage')
    /\ UNCHANGED preview

Table_handleCancel ==
    /\ editingCell # NoCell
    /\ editingCell' = NoCell
    /\ editValue' = ""
    /\ UNCHANGED <<storeVars, editorVars, entries>>
    /\ UNCHANGED previewVars

Table_handleAddEntry(ok) ==
    /\ db["A"].open /\ lastOp.n < MaxOps
    /\ LET newEntry == LocalizationEntry(generateId(idCounter), "new.key",
                                         "", "", "", "", "", "")
           r == createLocalization(db["A"], localStorage, newEntry, ok)
       IN  /\ Commit("A", r)
           /\ lastOp' = Op(lastOp.n + 1, "create", "A", newEntry.id, newEntry.key, "", "",
                           <<>>, ok, r.error, <<>>)
           /\ entries' = SortEntries(Append(entries, newEntry))
    /\ idCounter' = idCounter + 1
    /\ lastToast' = Toast("Translation key added successfully", "success")
    /\ UNCHANGED <<now, editor, sessionVars, currentComponent, currentComponentId, requests, events,
                   editingCell, editValue>>
    /\ storageEvents' = Notify("A", localStorage')
    /\ UNCHANGED preview

\* the delete button of a displayed row
Table_handleDeleteEntry(j, ok) ==
    /\ j \in 1..Len(entries)
    /\ db["A"].open /\ lastOp.n < MaxOps
    /\ LET id == entries[j].id
           r == deleteLocalization(db["A"], localStorage, id, ok)
       IN  /\ Commit("A", r)
           /\ lastOp' = Op(lastOp.n + 1, "delete", "A", id, "", "", "",
                           <<>>, ok, r.error, <<>>)
           /\ entries' = FilterOut(entries, id)
    /\ lastToast' = Toast("Translation key deleted successfully", "success")
    /\ UNCHANGED <<now, idCounter, editor, sessionVars, currentComponent, currentComponentId, requests,
                   events, editingCell, editValue>>
    /\ storageEvents' = Notify("A", localStorage')
    /\ UNCHANGED preview

(***************************************************************************)
(* ComponentPreview of a context: the listener effect (storage event,      *)
(* custom event, 500 ms poll of localizations_db_version) and the data the *)
(* rewrite effect fetches from the context's own store.  The text the      *)
(* rewrite produces is not part of this model.                             *)
(***************************************************************************)
\* the componentCode prop: the Editor state in "A", the code the page was
\* opened with elsewhere
componentCodeOf(c) == IF c = "A" THEN currentComponent ELSE preview[c].componentCode

\* mount: the listener effect reads lastVersion, the rewrite effect is due
Preview_mount(c, code, locale) ==
    /\ ~preview[c].mounted
    /\ preview' = [preview EXCEPT ![c] =
                      [NoPreview EXCEPT !.mounted = TRUE, !.componentCode = code,
                                        !.currentLocale = locale,
                                        !.lastVersion = localStorage.localizations_db_version,
                                        !.dirty = TRUE]]
    /\ UNCHANGED <<storeVars, editorVars, tableVars, storageEvents>>

\* a tick of setInterval(..., 500) that finds another version
Preview_poll(c) ==
    /\ preview[c].mounted
    /\ localStorage.localizations_db_version # preview[c].lastVersion
    /\ preview' = setVersion([preview EXCEPT ![c].lastVersion =
                                                localStorage.localizations_db_version], c)
    /\ UNCHANGED <<storeVars, editorVars, tableVars, storageEvents>>

\* onStorage for the key localizations_db or localizations_db_version
Preview_onStorage(c) ==
    /\ c \in storageEvents
    /\ storageEvents' = storageEvents \ {c}
    /\ preview' = setVersion(preview, c)
    /\ UNCHANGED <<storeVars, editorVars, tableVars>>

\* a button text, a text node and a spaced expression literal
CodeRewrite ==
    "const E = () => <div><button>{'Submit'}</button><a> \"Home\" </a><i>{ 'Home' }</i></div>"
PreviewCodes == Codes \cup RunCodes \cup {"", CodeRewrite}

\* s.replace(w, by), first occurrence only
replaceFirst(s, w, by) ==
    IF ~includes(s, w) THEN s
    ELSE LET i == Min({j \in 1..Len(s) : At(s, j, w)})
         IN  SubSeq(s, 1, i - 1) \o by \o SubSeq(s, i + Len(w), Len(s))

\* "Process the component code for Sandpack": the React import and the
\* hooks the code uses
processCode(componentCode) ==
    LET code == trim(componentCode)
        code1 == IF ~includes(code, "import React") /\ ~includes(code, "import * as React")
                 THEN "import React from 'react';\n" \o code ELSE code
        useState == includes(code1, "useState") /\ ~includes(code1, "{ useState")
        useEffect == includes(code1, "useEffect") /\ ~includes(code1, "{ useEffect")
        hooks == IF useState /\ useEffect THEN "useState, useEffect"
                 ELSE IF useState THEN "useState"
                 ELSE IF useEffect THEN "useEffect" ELSE ""
    IN  IF hooks = "" THEN code1
        ELSE replaceFirst(code1, "import React from 'react';",
                          "import React, { " \o hooks \o " } from 'react';")

\* the contents of the quoted strings of a text: what lies between a quote
\* and the next quote of the same kind
RECURSIVE ScanQuoted(_, _, _)
ScanQuoted(s, i, acc) ==
    IF i > Len(s) THEN acc
    ELSE IF Char(s, i) \notin QuoteSet
    THEN ScanQuoted(s, Min({Len(s) + 1} \cup {j \in i..Len(s) : Char(s, j) \in QuoteSet}), acc)
    ELSE LET close == {j \in (i + 1)..Len(s) : Char(s, j) = Char(s, i)}
         IN  IF close = {} THEN ScanQuoted(s, i + 1, acc)
             ELSE ScanQuoted(s, i + 1, acc \cup {SubSeq(s, i + 1, Min(close) - 1)})

\* the processed code of each component code and the quoted strings in it
\* (both depend on the code alone)
processed ==
    [code \in PreviewCodes |->
        LET out == processCode(code) IN [code |-> out, quoted |-> ScanQuoted(out, 1, {})]]

\* new Map(entries.map(e => [e.en.trim(), e.key])): a text keeps the place of
\* its first entry and gets the key of its last
textToKey(list) ==
    LET text(i) == trim(list[i].en)
        nth(S, k) == CHOOSE i \in S : Cardinality({j \in S : j < i}) = k - 1
    IN  The({[k \in 1..Cardinality(firsts) |->
                 [text |-> text(nth(firsts, k)),
                  key |-> list[Max({j \in 1..Len(list) :
                                      text(j) = text(nth(firsts, k))})].key]] :
             firsts \in {{i \in 1..Len(list) : \A j \in 1..(i - 1) : text(j) # text(i)}}})

\* the position after a match of  open \s* lit \s* close  that starts at i,
\* 0 when there is none
matchEnd(s, i, open, lit, close) ==
    IF ~At(s, i, open) THEN 0
    ELSE LET a == i + Len(open) + RunLen(s, i + Len(open), WhiteSet)
             b == a + Len(lit) + RunLen(s, a + Len(lit), WhiteSet)
         IN  IF At(s, a, lit) /\ At(s, b, close) THEN b + Len(close) ELSE 0

\* s.replace(new RegExp(open \s* lit \s* close, 'g'), by) from position i on
RECURSIVE replaceAll(_, _, _, _, _, _)
replaceAll(s, i, open, lit, close, by) ==
    The({IF hits = {} THEN SubSeq(s, i, Len(s))
         ELSE The({SubSeq(s, i, m[1] - 1) \o by \o replaceAll(s, m[2], open, lit, close, by) :
                   m \in {<<Min(hits), matchEnd(s, Min(hits), open, lit, close)>>}}) :
         hits \in {{j \in i..Len(s) : matchEnd(s, j, open, lit, close) # 0}}})

\* the body of `for (const [text, key] of textToKey.entries())` for one text
rewriteText(out, text, key) ==
    LET call == "{__i18n('" \o key \o "')}"
        single == "'" \o text \o "'"
        double == "\"" \o text \o "\""
        textSingle(o) == replaceAll(o, 1, ">", single, "<", "> " \o call \o " <")
        textDouble(o) == replaceAll(o, 1, ">", double, "<", "> " \o call \o " <")
        exprSingle(o) == replaceAll(o, 1, "{", single, "}", call)
        exprDouble(o) == replaceAll(o, 1, "{", double, "}", call)
    IN  The({exprDouble(o3) : o3 \in {The({exprSingle(o2) :
                 o2 \in {The({textDouble(o1) : o1 \in {textSingle(out)}})}})}})

\* the loop over textToKey: `quoted` holds every quoted string the text can
\* contain (those of the processed code and the keys the loop inserts); a
\* text that is not among them and has no quote of its own matches nowhere
RECURSIVE rewriteLiterals(_, _, _, _)
rewriteLiterals(out, quoted, pairs, j) ==
    IF j > Len(pairs) THEN out
    ELSE LET text == pairs[j].text
             skip == \/ text = ""
                     \/ toLowerCase(text) \in banned
                     \/ /\ text \notin quoted
                        /\ text \notin {pairs[i].key : i \in 1..Len(pairs)}
                        /\ CharsOf(text) \cap QuoteSet = {}
         IN  The({rewriteLiterals(o, quoted, pairs, j + 1) :
                  o \in {IF skip THEN out ELSE rewriteText(out, text, pairs[j].key)}})

\* `out` after the loop over textToKey in rewriteWithKeys
literalsRewritten(code, list) ==
    The({rewriteLiterals(p.code, p.quoted, pairs, 1) :
         p \in {processed[code]}, pairs \in {textToKey(list)}})

\* the rewrite effect: setupEmpty fetches the two locale maps, rewriteWithKeys
\* the entry list as well; all of them from the context's own `db`.  `out` is
\* the code after the literal passes; the later passes rewrite key strings
\* and t() calls and leave the calls the literal passes wrote as they are
Preview_rewrite(c) ==
    /\ preview[c].mounted /\ preview[c].dirty
    /\ db[c].open /\ preview[c].pending = <<>>
    /\ \E list \in {getAllLocalizations(db[c])} :
          preview' = [preview EXCEPT
                         ![c].dirty = FALSE,
                         ![c].built = [code |-> componentCodeOf(c),
                                       locale |-> preview[c].currentLocale],
                         ![c].out = IF trim(componentCodeOf(c)) = "" THEN ""
                                    ELSE literalsRewritten(componentCodeOf(c), list),
                         ![c].entries = IF trim(componentCodeOf(c)) = "" THEN @ ELSE list,
                         ![c].TX = getTranslations(db[c], preview[c].currentLocale).map,
                         ![c].EN = getTranslations(db[c], "en").map]
    /\ UNCHANGED <<storeVars, editorVars, tableVars, storageEvents>>

(***************************************************************************)
(* Runs of the rewrite effect that wait.  A run started while the database *)
(* is still being opened waits at its first store call with the code and   *)
(* the locale of the render that started it; nothing cancels it.  Once the *)
(* database is open the waiting runs go on in turn, each from one await to *)
(* the next, in the order in which they were started.                      *)
(***************************************************************************)
MaxPending == 3

\* setCurrentLocale: the stored locale restored after mount, or a choice in
\* the LocaleSelector
Preview_setLocale(c, locale) ==
    /\ preview[c].mounted /\ preview[c].currentLocale # locale
    /\ preview' = [preview EXCEPT ![c].currentLocale = locale, ![c].dirty = TRUE]
    /\ UNCHANGED <<storeVars, editorVars, tableVars, storageEvents>>

\* the rewrite effect runs while the database is closed: setupEmpty waits at
\* getLocaleMap(currentLocale), rewriteWithKeys at getAllLocalizations()
Preview_start(c) ==
    /\ preview[c].mounted /\ preview[c].dirty
    /\ ~db[c].open /\ Len(preview[c].pending) < MaxPending
    /\ preview' = [preview EXCEPT
                      ![c].dirty = FALSE,
                      ![c].pending = Append(@,
                          [code |-> componentCodeOf(c),
                           locale |-> preview[c].currentLocale,
                           pc |-> IF trim(componentCodeOf(c)) = "" THEN "tx" ELSE "entries",
                           list |-> <<>>, TX |-> <<>>])]
    /\ UNCHANGED <<storeVars, editorVars, tableVars, storageEvents>>

\* mutant: the run started last goes on first
nextPending_Last(pending) == Len(pending)

\* the waiting run whose continuation is first in the microtask queue
nextPending(pending) == 1

\* a waiting run goes on to its next await, or past its last one to
\* setProcessedCode / setProcessedAppCode
Preview_resume(c) ==
    /\ preview[c].mounted /\ db[c].open /\ preview[c].pending # <<>>
    /\ LET k == nextPending(preview[c].pending)
           run == preview[c].pending[k]
           rest == SubSeq(preview[c].pending, 1, k - 1) \o
                   SubSeq(preview[c].pending, k + 1, Len(preview[c].pending))
       IN  CASE run.pc = "entries" ->
                  preview' = [preview EXCEPT ![c].pending =
                      Append(rest, [run EXCEPT !.pc = "tx",
                                               !.list = getAllLocalizations(db[c])])]
             [] run.pc = "tx" ->
                  preview' = [preview EXCEPT ![c].pending =
                      Append(rest, [run EXCEPT !.pc = "en",
                                               !.TX = getTranslations(db[c], run.locale).map])]
             [] OTHER ->
                  preview' = [preview EXCEPT
                      ![c].pending = rest,
                      ![c].finished = @ + 1,
                      ![c].built = [code |-> run.code, locale |-> run.locale],
                      ![c].out = IF trim(run.code) = "" THEN ""
                                 ELSE literalsRewritten(run.code, run.list),
                      ![c].entries = IF trim(run.code) = "" THEN @ ELSE run.list,
                      ![c].TX = run.TX,
                      ![c].EN = getTranslations(db[c], "en").map]
    /\ UNCHANGED <<storeVars, editorVars, tableVars, storageEvents>>

(***************************************************************************)
(* The runtime the preview injects: __TX and __EN are object literals      *)
(* printed by JSON.stringify, __i18n looks a key up in them                *)
(***************************************************************************)
\* `obj[k]` on an object literal whose own properties are the map `obj`
getProperty(obj, k) ==
    IF k \in DOMAIN obj THEN JsString(obj[k])
    ELSE IF k \in ObjectPrototypeNames THEN JsFunction(k)
    ELSE JsUndefined

\* (\.[A-Za-z0-9_]+)+$ from position i of k
RECURSIVE dottedSegments(_, _)
dottedSegments(k, i) ==
    /\ At(k, i, ".")
    /\ LET m == RunLen(k, i + 1, WordSet)
       IN  m >= 1 /\ (i + m = Len(k) \/ dottedSegments(k, i + 1 + m))

\* /^[A-Za-z]+(\.[A-Za-z0-9_]+)+$/.test(k)
isKeyShape(k) ==
    LET n == RunLen(k, 1, LowerSet \cup UpperSet)
    IN  n >= 1 /\ dottedSegments(k, n + 1)

\* (last.charAt(0).toUpperCase() + last.slice(1)).replace(/_/g, ' ')
derivedLabel(k) ==
    LET last == lastSegment(k)
    IN  IF last = "" THEN "" ELSE underscoresToSpaces(upperChar(Head(last)) \o Tail(last))

\* __i18n(k) with the maps TX and EN of the preamble
i18n(TX, EN, k) ==
    LET v == getProperty(TX, k)
        en == getProperty(EN, k)
    IN  IF v # JsUndefined /\ v # JsString("") THEN v
        ELSE IF en # JsUndefined /\ en # JsString("") THEN en
        ELSE IF isKeyShape(k) /\ lastSegment(k) # "" THEN JsString(derivedLabel(k))
        ELSE JsString(k)

\* the component rendered in the sandbox evaluates __i18n(k); the preamble
\* is the one the last run of the rewrite effect built
Preview_i18n(c, k) ==
    /\ preview[c].mounted /\ ~preview[c].dirty
    /\ preview' = [preview EXCEPT ![c].shown =
                      [k |-> k, v |-> i18n(preview[c].TX, preview[c].EN, k)]]
    /\ UNCHANGED <<storeVars, editorVars, tableVars, storageEvents>>

\* keys a rendered component asks for: a key of the store, a key the store
\* lacks, a plain word, a key whose first segment has a digit, a name every
\* object has
ResolverKeys ==
    {"button.submit", "profile.user_name", "plain", "9lives.x", "constructor"}

\* one context whose table cells are emptied and whose page is reloaded
\* before the preview is mounted
NextResolver ==
    \/ InitializeDatabase("B", TRUE)
    \/ Reload("B")
    \/ \E f \in {"es", "en"} : LocalizationDB_update("B", "2", f, "", TRUE)
    \/ \E code \in {"", CodeRewrite} : Preview_mount("B", code, "es")
    \/ Preview_rewrite("B")
    \/ \E k \in ResolverKeys : Preview_i18n("B", k)

SpecResolver == Init /\ [][NextResolver]_vars

(***************************************************************************)
(* The synchronisation specification: the table writes in context "A", a   *)
(* preview observes in context "B"                                         *)
(***************************************************************************)
SyncEditKeys == {"button.submit"}
SyncEditFields == {"es", "en"}
SyncEditValues == {"Hola"}
ObserverCodes == {"", CodeSubmit}
ObserverLocales == {"es"}

NextSync ==
    \/ \E c \in Contexts : InitializeDatabase(c, TRUE)
    \/ Table_loadEntries
    \/ \E j \in 1..Len(entries), f \in SyncEditFields :
          entries[j].key \in SyncEditKeys /\ Table_handleEdit(j, f)
    \/ \E v \in SyncEditValues : Table_setEditValue(v)
    \/ \E ok \in BOOLEAN : Table_handleSave(ok)
    \/ \E code \in ObserverCodes, locale \in ObserverLocales : Preview_mount("B", code, locale)
    \/ Preview_poll("B")
    \/ Preview_onStorage("B")
    \/ Preview_rewrite("B")

SpecSync == Init /\ [][NextSync]_vars

\* the same two contexts with one cell edited to one value, for the
\* polling observer
PollEditFields == {"es"}

NextPoll ==
    \/ \E c \in Contexts : InitializeDatabase(c, TRUE)
    \/ Table_loadEntries
    \/ \E j \in 1..Len(entries), f \in PollEditFields :
          entries[j].key \in SyncEditKeys /\ Table_handleEdit(j, f)
    \/ \E v \in SyncEditValues : Table_setEditValue(v)
    \/ Table_handleSave(TRUE)
    \/ \E code \in ObserverCodes, locale \in ObserverLocales : Preview_mount("B", code, locale)
    \/ Preview_poll("B")
    \/ Preview_onStorage("B")
    \/ Preview_rewrite("B")

\* the interval timer of a mounted preview keeps firing, React runs an effect
\* whose dependency changed, and the effect's first store call opens the
\* database of its context
SpecPoll ==
    /\ Init /\ [][NextPoll]_vars
    /\ WF_vars(Preview_poll("B"))
    /\ WF_vars(Preview_rewrite("B"))
    /\ WF_vars(InitializeDatabase("B", TRUE))

(***************************************************************************)
(* The editor specification: one context with the editor and the table     *)
(***************************************************************************)
\* what the provider answers for a locale and an English text
Tr(l, t) == l \o ":" \o t

\* parsed bodies of a 200 response to a request for `newKeys`
Responses(newKeys) ==
    LET texts == {newKeys[j].en : j \in 1..Len(newKeys)}
        first == IF newKeys = <<>> THEN "" ELSE newKeys[1].en
    IN  { [hasTranslations |-> TRUE,
           translations |-> [l \in translationFields |->
                               [t \in texts |-> IF l \in {"es", "zh"} THEN Tr(l, t) ELSE ""]]],
          [hasTranslations |-> TRUE,
           translations |-> [l \in {"es", "fr"} |->
                               IF l = "es" THEN [t \in {first} |-> Tr(l, t)]
                               ELSE [t \in {toLowerCase(x) : x \in texts} |-> Tr(l, t)]]],
          [hasTranslations |-> FALSE, translations |-> <<>>] }

\* the rows the user edits or deletes, the cells they edit, what they type
EditKeys == {"auto.sign.up.2"}
DeleteKeys == {"auto.sign.up"}
EditFields == {"key", "es"}
EditValues == {"auto.sign.up"}

\* the storage accepts the table's own writes here; the store specification
\* covers a storage that refuses them
NextEditor ==
    \/ \E ok \in BOOLEAN : InitializeDatabase("A", ok)
    \/ \E code \in Codes, ok \in BOOLEAN : Editor_ensureId(code, ok)
    \/ \E kind \in FailureKinds : Editor_translateFailed(kind)
    \/ \E data \in Responses(editor.newKeys), ok \in BOOLEAN :
          Editor_translateResponse(data, ok)
    \/ Table_loadEntries
    \/ \E j \in 1..Len(entries), f \in EditFields :
          entries[j].key \in EditKeys /\ Table_handleEdit(j, f)
    \/ \E v \in EditValues : Table_setEditValue(v)
    \/ Table_handleSave(TRUE)
    \/ Table_handleCancel
    \/ Table_handleAddEntry(TRUE)
    \/ \E j \in 1..Len(entries) :
          entries[j].key \in DeleteKeys /\ Table_handleDeleteEntry(j, TRUE)

SpecEditor == Init /\ [][NextEditor]_vars

(***************************************************************************)
(* The editor over several assistant messages, nothing else writing        *)
(***************************************************************************)
\* the next assistant message arrives: the effect will run again
Editor_nextMessage ==
    /\ editor.pc = "done"
    /\ editor' = [editor EXCEPT !.pc = "idle"]
    /\ UNCHANGED <<storeVars, sessionVars, currentComponent, currentComponentId, lastToast,
                   requests, events, tableVars, previewVars>>

\* the storage accepts every write and the provider, when it answers,
\* answers for all five locales
NextRuns ==
    \/ InitializeDatabase("A", TRUE)
    \/ \E code \in RunCodes : Editor_ensureId(code, TRUE)
    \/ \E kind \in FailureKinds : Editor_translateFailed(kind)
    \/ \E data \in {d \in Responses(editor.newKeys) :
                       d.hasTranslations /\ DOMAIN d.translations = translationFields} :
          Editor_translateResponse(data, TRUE)
    \/ Editor_nextMessage

SpecRuns == Init /\ [][NextRuns]_vars

(***************************************************************************)
(* The Editor over a chat session: messages arrive and change, the effect  *)
(* on [messages, currentComponentId] starts ensureId for the last message, *)
(* the user starts a new session.  An ensureId runs from one await to the  *)
(* next in one step.  An effect, a message, a click and the answer of a    *)
(* fetch are tasks and wait until no ensureId can go on; several ensureId  *)
(* can go on at once only when they were started while the database was    *)
(* still being opened, and then they take turns at their awaits.           *)
(***************************************************************************)
\* the ids useChat gives the assistant messages, in order
MessageIds == <<"m1", "m2">>

NewRun(msg, code, id, fresh) ==
    [msg |-> msg, code |-> code, id |-> id, fresh |-> fresh, pc |-> "create",
     existing0 |-> <<>>, existing |-> <<>>, j |-> 1, newKeys |-> <<>>, resolved |-> <<>>]

\* the continuation of run p is in the microtask queue
Runnable(p) ==
    \/ runs[p].pc \in {"snapshot", "minting"}
    \/ runs[p].pc = "create" /\ db["A"].open
Quiet == \A p \in 1..Len(runs) : ~Runnable(p)

\* mutant: the effect forgets which messages it has processed
alreadyProcessed_Never(ids, id) == FALSE

\* processedMessageIds.current.has(lastMessage.id)
alreadyProcessed(ids, id) == id \in ids

\* `if (!id) createComponent({id, ...}) else updateComponent(id, {code, ...})`
saveComponent(run, ok) ==
    IF run.fresh
    THEN createComponent(db["A"], localStorage, [id |-> run.id, code |-> run.code], ok)
    ELSE updateComponent(db["A"], localStorage, run.id, run.code, ok)

\* useChat appends an assistant message; code is the last code block of its
\* text so far, "" when it has none yet
Chat_message(code) ==
    /\ Quiet
    /\ messageCounter < Len(MessageIds)
    /\ messages' = Append(messages, [id |-> MessageIds[messageCounter + 1], code |-> code])
    /\ messageCounter' = messageCounter + 1
    /\ effectDue' = TRUE
    /\ UNCHANGED <<storeVars, editor, processedMessageIds, runs, currentComponent,
                   currentComponentId, lastToast, requests, events, tableVars, previewVars>>

\* the last message streams on: the list is a new array, its last message
\* has the same id
Chat_chunk(code) ==
    /\ Quiet
    /\ messages # <<>> /\ ~effectDue
    /\ messages' = [messages EXCEPT ![Len(messages)].code = code]
    /\ effectDue' = TRUE
    /\ UNCHANGED <<storeVars, editor, messageCounter, processedMessageIds, runs,
                   currentComponent, currentComponentId, lastToast, requests, events,
                   tableVars, previewVars>>

\* the effect: skip a processed message, otherwise mark it and call
\* ensureId, which runs up to its first await
Editor_effect(ok) ==
    /\ Quiet /\ effectDue
    /\ LET lastMessage == messages[Len(messages)]
           start == /\ messages # <<>>
                    /\ ~alreadyProcessed(processedMessageIds, lastMessage.id)
                    /\ lastMessage.code # ""
       IN  IF ~start
           THEN /\ effectDue' = FALSE
                /\ UNCHANGED <<storeVars, processedMessageIds, runs, currentComponentId>>
           ELSE LET fresh == currentComponentId = ""
                    id == IF fresh THEN cryptoRandomId(idCounter) ELSE currentComponentId
                    run == NewRun(lastMessage.id, lastMessage.code, id, fresh)
                    r == saveComponent(run, ok)
                IN  /\ processedMessageIds' = processedMessageIds \cup {lastMessage.id}
                    /\ currentComponentId' = id
                    /\ effectDue' = fresh
                    /\ idCounter' = idCounter + (IF fresh THEN 1 ELSE 0)
                    /\ IF db["A"].open
                       THEN /\ Commit("A", r)
                            /\ runs' = Append(runs, [run EXCEPT !.pc = "snapshot"])
                       ELSE /\ runs' = Append(runs, run)
                            /\ UNCHANGED <<db, localStorage>>
                    /\ UNCHANGED <<now, lastOp>>
    /\ UNCHANGED <<editor, messages, messageCounter, currentComponent, lastToast, requests,
                   events, tableVars, preview>>
    /\ storageEvents' = Notify("A", localStorage')

\* handleNewComponent
Editor_handleNewComponent ==
    /\ Quiet
    /\ messages' = <<>>
    /\ currentComponent' = ""
    /\ currentComponentId' = ""
    /\ processedMessageIds' = {}
    /\ lastToast' = Toast("New component session started", "info")
    /\ effectDue' = TRUE
    /\ UNCHANGED <<storeVars, editor, messageCounter, runs, requests, events, tableVars,
                   storageEvents>>
    /\ preview' = Rerender("A", currentComponent' # currentComponent)

\* ensureId goes on from the await it stands at to its next one: the
\* component is saved; `existing` is read; one candidate text or referenced
\* key is resolved; after the last one the request is sent or, when nothing
\* was minted, the code is handed to the preview
Run_step(p, ok) ==
    /\ p \in 1..Len(runs) /\ Runnable(p)
    /\ LET run == runs[p]
           cands == extracted[run.code].candidates
           refs == extracted[run.code].keyRefs
           st0 == [db |-> db["A"], ls |-> localStorage, n |-> idCounter,
                   existing |-> run.existing, newKeys |-> run.newKeys,
                   resolved |-> run.resolved]
       IN  CASE run.pc = "create" ->
                  /\ Commit("A", saveComponent(run, ok))
                  /\ runs' = [runs EXCEPT ![p].pc = "snapshot"]
                  /\ UNCHANGED <<idCounter, currentComponent, requests>>
             [] run.pc = "snapshot" ->
                  /\ \E list \in {getAllLocalizations(db["A"])} :
                        runs' = [runs EXCEPT ![p].pc = "minting", ![p].existing0 = list,
                                             ![p].existing = list]
                  /\ UNCHANGED <<db, localStorage, idCounter, currentComponent, requests>>
             [] run.pc = "minting" /\ run.j <= Len(cands) + Len(refs) ->
                  /\ \E st \in {IF run.j <= Len(cands)
                                 THEN resolveCandidates(run.existing0, st0,
                                                        <<cands[run.j]>>, 1, ok)
                                 ELSE resolveKeyRefs(st0, <<refs[run.j - Len(cands)]>>,
                                                     1, ok)} :
                        /\ db' = [db EXCEPT !["A"] = st.db]
                        /\ localStorage' = st.ls
                        /\ idCounter' = st.n
                        /\ runs' = [runs EXCEPT ![p].j = @ + 1,
                                                ![p].existing = st.existing,
                                                ![p].newKeys = st.newKeys,
                                                ![p].resolved = st.resolved]
                  /\ UNCHANGED <<currentComponent, requests>>
             [] OTHER ->
                  /\ requests' = translateRequests(requests, run.newKeys)
                  /\ IF run.newKeys = <<>>
                     THEN /\ runs' = [runs EXCEPT ![p].pc = "done"]
                          /\ currentComponent' = run.code
                     ELSE /\ runs' = [runs EXCEPT ![p].pc = "fetching"]
                          /\ UNCHANGED currentComponent
                  /\ UNCHANGED <<db, localStorage, idCounter>>
    /\ UNCHANGED <<now, lastOp, editor, messages, messageCounter, processedMessageIds,
                   effectDue, currentComponentId, lastToast, events, tableVars>>
    /\ storageEvents' = Notify("A", localStorage')
    /\ preview' = Rerender("A", currentComponent' # currentComponent)

\* the answer to the request of run p arrives: the merge, the marker, the
\* event, then setCurrentComponent
Run_response(p, data, ok) ==
    /\ Quiet
    /\ p \in 1..Len(runs) /\ runs[p].pc = "fetching"
    /\ LET r == mergeItems([db |-> db["A"], ls |-> localStorage, error |-> FALSE],
                           runs[p].newKeys, 1, data.translations, ok)
       IN  /\ db' = [db EXCEPT !["A"] = r.db]
           /\ \E t \in now..MaxNow :
                 /\ now' = t
                 /\ IF ok
                    THEN /\ localStorage' = [r.ls EXCEPT !.localizations_db_version = t]
                         /\ events' = events + 1
                    ELSE /\ localStorage' = r.ls
                         /\ events' = events
    /\ runs' = [runs EXCEPT ![p].pc = "done"]
    /\ currentComponent' = runs[p].code
    /\ UNCHANGED <<lastOp, idCounter, editor, messages, messageCounter, processedMessageIds,
                   effectDue, currentComponentId, lastToast, requests, tableVars>>
    /\ storageEvents' = Notify("A", localStorage')
    /\ preview' = IF events' # events
                  THEN setVersion(Rerender("A", currentComponent' # currentComponent), "A")
                  ELSE Rerender("A", currentComponent' # currentComponent)

\* the request of run p fails: the catch block, then setCurrentComponent
Run_failed(p) ==
    /\ Quiet
    /\ p \in 1..Len(runs) /\ runs[p].pc = "fetching"
    /\ lastToast' = failureToast(lastToast)
    /\ runs' = [runs EXCEPT ![p].pc = "done"]
    /\ currentComponent' = runs[p].code
    /\ UNCHANGED <<storeVars, editor, messages, messageCounter, processedMessageIds,
                   effectDue, currentComponentId, requests, events, tableVars,
                   storageEvents>>
    /\ preview' = Rerender("A", currentComponent' # currentComponent)

\* what the provider answers to a request: all five locales for every text
Answer(newKeys) ==
    [hasTranslations |-> TRUE,
     translations |-> [l \in translationFields |->
                         [t \in {newKeys[j].en : j \in 1..Len(newKeys)} |-> Tr(l, t)]]]

\* the storage accepts every write
NextSession ==
    \/ InitializeDatabase("A", TRUE)
    \/ \E code \in SessionCodes \cup {""} : Chat_message(code)
    \/ \E code \in SessionCodes : Chat_chunk(code)
    \/ Editor_effect(TRUE)
    \/ Editor_handleNewComponent
    \/ \E p \in 1..Len(runs) : Run_step(p, TRUE)
    \/ \E p \in 1..Len(runs) : Run_response(p, Answer(runs[p].newKeys), TRUE)
    \/ \E p \in 1..Len(runs) : Run_failed(p)

SpecSession == Init /\ [][NextSession]_vars

(***************************************************************************)
(* The preview specification: the editor's preview in context "A", from    *)
(* the page load on                                                        *)
(***************************************************************************)
PreviewLocales == {"en", "es", "ja"}

\* a continuation of a waiting run is in the microtask queue: no event
\* handler and no effect runs before it
PreviewBusy == db["A"].open /\ preview["A"].pending # <<>>

NextPreview ==
    \/ InitializeDatabase("A", TRUE)
    \/ ~PreviewBusy /\ Preview_mount("A", "", "en")
    \/ ~PreviewBusy /\ \E l \in PreviewLocales : Preview_setLocale("A", l)
    \/ Preview_start("A")
    \/ Preview_resume("A")
    \/ Preview_rewrite("A")
    \/ ~PreviewBusy /\ idCounter < MaxIds /\ Editor_ensureId(CodeSubmit, TRUE)
    \/ ~PreviewBusy /\ Editor_nextMessage
    \/ ~PreviewBusy /\ Editor_handleNewComponent

SpecPreview == Init /\ [][NextPreview]_vars

(***************************************************************************)
(* Properties of the store (checked under SpecStore)                       *)
(***************************************************************************)
Called(op) == lastOp'.n # lastOp.n /\ lastOp'.op = op

\* C1: in every reachable state no two localization entries of a store have
\* the same key, whatever sequence of create, update (also of the key
\* column), update-by-key and delete led there.
C1_KeyUnique ==
    \A c \in Contexts :
        \A r1, r2 \in db[c].localizations : r1.key = r2.key => r1 = r2

\* C1 witness: a row was created next to the seeded ones and an update of the
\* key column went through.
C1_Witness ==
    /\ lastOp.op = "update" /\ lastOp.field = "key" /\ ~lastOp.error
    /\ lastOp.n = 3
    /\ Cardinality(db[lastOp.ctx].localizations) >= 3
    /\ \E r \in db[lastOp.ctx].localizations : r.id = lastOp.id /\ r.key = lastOp.value

\* C2: createLocalization with a key that is already stored raises no error
\* and leaves the entries and every field of the existing entry as they were;
\* creating an entry a second time gives the store that creating it once gave.
C2_CreateIdempotent ==
    /\ [][ (Called("create")
            /\ \E r \in db[lastOp'.ctx].localizations : r.key = lastOp'.key)
           => (~lastOp'.error /\ db' = db) ]_vars
    /\ [](\A c \in Contexts, e \in CreateInputs :
            db[c].open =>
              LET once == createLocalization(db[c], localStorage, e, TRUE)
                  twice == createLocalization(once.db, once.ls, e, TRUE)
              IN  ~twice.error /\ twice.db = once.db /\ twice.ls = once.ls)

\* C2 witness: create was called with a fresh id and the seeded key
\* button.submit; the seeded entry is still there, untouched.
C2_Witness ==
    /\ lastOp.op = "create" /\ lastOp.id = "u1" /\ lastOp.key = "button.submit"
    /\ ~lastOp.error
    /\ LocalizationEntry("2", "button.submit", "Submit", "Enviar", "Soumettre",
                         "Absenden", "Soshin", "Tijiao") \in db[lastOp.ctx].localizations
    /\ \A r \in db[lastOp.ctx].localizations : r.id # "u1"

\* C3: updateLocalizationByKey(key, t) sets, in the entry with that key, the
\* locale fields among es, fr, de, ja, zh that t holds, and nothing else:
\* every other field of that entry and every other entry keeps its value.
C3_Expected(r, key, t) ==
    IF r.key = key
    THEN [f \in DOMAIN r |->
            IF f \in translationFields /\ f \in DOMAIN t THEN t[f] ELSE r[f]]
    ELSE r

Mutating(o) ==
    \/ o.op \in {"create", "update", "delete"}
    \/ o.op = "updateByKey" /\ DOMAIN o.translations \cap translationFields # {}

C6_SnapshotWhole ==
    [][ /\ (lastOp'.n # lastOp.n /\ Mutating(lastOp') /\ ~lastOp'.error /\ lastOp'.ok)
           => localStorage'.localizations_db = Export(db'[lastOp'.ctx])
        /\ \/ localStorage'.localizations_db = localStorage.localizations_db
           \/ \E c \in Contexts : /\ db'[c].open
                                  /\ localStorage'.localizations_db = Export(db'[c])
      ]_vars

\* C6 witness: a delete of the seeded entry "2" went through as a later call;
\* the snapshot is the store without the deleted entry.
C6_Witness ==
    /\ lastOp.op = "delete" /\ lastOp.id = "2" /\ lastOp.ok /\ lastOp.n >= 2
    /\ localStorage.localizations_db = Export(db[lastOp.ctx])
    /\ \A r \in localStorage.localizations_db.localizations : r.id # "2"
    /\ Cardinality(db[lastOp.ctx].localizations) >= 2

C8_WitnessMap ==
    /\ lastOp.op = "getTranslations" /\ lastOp.field = "ja" /\ ~lastOp.error
    /\ \E r \in db[lastOp.ctx].localizations : r.ja = "" /\ lastOp.result[r.key] = ""
    /\ \E r \in db[lastOp.ctx].localizations : lastOp.result[r.key] = "Soshin"

\* C23: a mutating store call during which the storage refuses the write
\* throws only for the reasons it throws when the write goes through (an
\* invalid field, a key update that collides); otherwise the caller's
\* in-memory store shows the mutation and the snapshot under localizations_db
\* keeps its previous value; the next mutating call whose write goes through
\* stores the export of the whole in-memory store, earlier unsaved mutations
\* included.
RefusedWrite == lastOp'.n # lastOp.n /\ Mutating(lastOp') /\ ~lastOp'.ok

\* (INSERT OR IGNORE adds nothing when the id or the key is already there)
Reflects(o, before, rows) ==
    CASE o.op = "create" -> \/ \E r \in rows : r.key = o.key /\ r.id = o.id
                            \/ \E r \in before : r.key = o.key \/ r.id = o.id
      [] o.op = "update" -> \A r \in rows : r.id = o.id => r[o.field] = o.value
      [] o.op = "delete" -> \A r \in rows : r.id # o.id
      [] OTHER -> \A r \in rows : r.key = o.key =>
                     \A f \in DOMAIN o.translations \cap translationFields :
                        r[f] = o.translations[f]

C23_SaveFailureSwallowed ==
    [][ /\ RefusedWrite =>
             /\ localStorage' = localStorage
             /\ lastOp'.error =>
                   /\ lastOp'.op = "update"
                   /\ \/ lastOp'.field \notin validFields
                      \/ UpdateWhereId(db[lastOp'.ctx].localizations, lastOp'.id,
                                       lastOp'.field, lastOp'.value).error
                   /\ db' = db
             /\ ~lastOp'.error => Reflects(lastOp', db[lastOp'.ctx].localizations,
                                                db'[lastOp'.ctx].localizations)
        /\ (lastOp'.n # lastOp.n /\ Mutating(lastOp') /\ lastOp'.ok /\ ~lastOp'.error)
             => localStorage'.localizations_db = Export(db'[lastOp'.ctx])
      ]_vars

\* C23 witness: the write of a create was refused: the call returned, the
\* in-memory store holds the new entry and the snapshot does not.
C23_Witness ==
    /\ lastOp.op = "create" /\ ~lastOp.ok /\ ~lastOp.error
    /\ \E r \in db[lastOp.ctx].localizations : r.key = lastOp.key /\ r.id = lastOp.id
    /\ localStorage.localizations_db.present
    /\ \A r \in localStorage.localizations_db.localizations : r.key # lastOp.key

\* a write went through after a refused one: the snapshot holds both mutations
C23_WitnessLater ==
    /\ lastOp.op = "delete" /\ lastOp.ok /\ lastOp.n >= 2
    /\ localStorage.localizations_db = Export(db[lastOp.ctx])
    /\ \E r \in localStorage.localizations_db.localizations : r.key = "new.key"
    /\ \A r \in localStorage.localizations_db.localizations : r.id # lastOp.id

(***************************************************************************)
(* Properties of the editor and the table (checked under SpecEditor)       *)
(***************************************************************************)
RowsOf(d) == d.localizations
Version(ls) == ls.localizations_db_version
MintedKeys(newKeys) == {newKeys[j].key : j \in 1..Len(newKeys)}
EnOf(newKeys, key) == newKeys[CHOOSE j \in 1..Len(newKeys) : newKeys[j].key = key].en

\* C4 (as the claim states it): every step that changes the localization
\* rows of an open database -- a create, update, update-by-key or delete
\* issued by the table's handlers or by the editor's minting and merge --
\* leaves localizations_db_version greater than it was before the step.
C4_EveryMutationBumps ==
    [][ (db["A"].open /\ db'["A"].open /\ RowsOf(db'["A"]) # RowsOf(db["A"]))
            => Version(localStorage') > Version(localStorage) ]_vars

\* C9: the step that merges a translate response leaves the set of rows,
\* every key and every English text as they were, and sets locale field l of
\* a row to the provider's value exactly when the row's key was minted by
\* this run and the provider returned a non-empty string for the exact
\* English text minted with it; every other field keeps its value.
C9_MergeExact ==
    [][ (editor.pc = "fetching" /\ editor'.outcome = "merged") =>
          LET trans == editor'.response.translations
              minted == MintedKeys(editor.newKeys)
              Provided(l, k) ==
                  /\ l \in DOMAIN trans
                  /\ EnOf(editor.newKeys, k) \in DOMAIN trans[l]
                  /\ trans[l][EnOf(editor.newKeys, k)] # ""
          IN  /\ {r.id : r \in RowsOf(db'["A"])} = {r.id : r \in RowsOf(db["A"])}
              /\ \A r \in RowsOf(db["A"]) :
                    \E q \in RowsOf(db'["A"]) :
                       /\ q.id = r.id /\ q.key = r.key /\ q.en = r.en
                       /\ \A l \in translationFields :
                             q[l] = IF r.key \in minted /\ Provided(l, r.key)
                                    THEN trans[l][EnOf(editor.newKeys, r.key)]
                                    ELSE r[l] ]_vars

\* a merged response gave "Sign up" a Spanish text and an empty French one
C9_Witness ==
    /\ editor.outcome = "merged"
    /\ \E r \in RowsOf(db["A"]) :
          r.key = "auto.sign.up" /\ r.es = Tr("es", "Sign up") /\ r.fr = ""

C11_OneRequestWithAllMinted ==
    /\ [][ (editor.pc = "idle" /\ editor'.pc # "idle") =>
             LET minted == {[key |-> r.key, en |-> r.en] :
                               r \in RowsOf(db'["A"]) \ RowsOf(db["A"])}
             IN  IF minted = {}
                 THEN requests' = requests
                 ELSE /\ Len(requests') = Len(requests) + 1
                      /\ SubSeq(requests', 1, Len(requests)) = requests
                      /\ LET body == requests'[Len(requests')]
                         IN  /\ {body[j] : j \in 1..Len(body)} = minted
                             /\ Len(body) = Cardinality(minted) ]_vars
    /\ [][ (editor.pc # "idle" \/ editor'.pc = "idle") => requests' = requests ]_vars

\* the run on the sign-up code has sent its one request, listing the three
\* keys it minted
C11_Witness ==
    /\ editor.pc = "fetching"
    /\ Len(requests) = 1
    /\ {requests[1][j] : j \in 1..Len(requests[1])} =
          { [key |-> "auto.sign.up", en |-> "Sign up"],
            [key |-> "auto.sign.up.2", en |-> "Sign-up"],
            [key |-> "cta.buy_now", en |-> "Buy Now"] }
    /\ \A p \in {requests[1][j] : j \in 1..Len(requests[1])} :
          \E r \in RowsOf(db["A"]) : r.key = p.key /\ r.en = p.en

\* C12 (as the claim states it): the step that merges a translate response
\* and changes at least one row of the store (a translation was written)
\* leaves localizations_db_version with a value it did not have before and
\* has dispatched one 'localizations-updated' event.
C12_MergeBumpsAndNotifies ==
    [][ ( /\ editor.pc = "fetching" /\ editor'.outcome = "merged"
          /\ RowsOf(db'["A"]) # RowsOf(db["A"]) )
        => /\ Version(localStorage') # Version(localStorage)
           /\ events' = events + 1 ]_vars

\* C27: the step that merges a translate response leaves every locale field
\* that holds a non-empty value when the merge begins with that value.
C27_MergeKeepsFilledFields ==
    [][ (editor.pc = "fetching" /\ editor'.outcome = "merged") =>
          \A r \in RowsOf(db["A"]), l \in translationFields :
              r[l] # "" => \E q \in RowsOf(db'["A"]) : q.id = r.id /\ q[l] = r[l]
      ]_vars

\* C28: a table handler (Add Entry, Save, Delete) that starts with the
\* displayed entries equal to the store's entries and completes without
\* error ends with the displayed entries equal to the store's entries.
Shown(list) == {list[j] : j \in 1..Len(list)}

C28_TableShowsStore ==
    [][ ( /\ lastOp'.n # lastOp.n /\ ~lastOp'.error
          /\ Shown(entries) = RowsOf(db["A"]) )
        => Shown(entries') = RowsOf(db'["A"])
      ]_vars

(***************************************************************************)
(* Properties of two writing contexts (checked under SpecTabs)             *)
(***************************************************************************)
\* context c opened its database or completed a create, update or delete
\* in this step
Wrote(c) ==
    \/ ~db[c].open /\ db'[c].open
    \/ /\ lastOp'.n # lastOp.n /\ lastOp'.ctx = c /\ ~lastOp'.error
       /\ lastOp'.op \in {"create", "update", "delete"}

\* C14: every write of a context leaves the persisted snapshot equal to the
\* full export of that context's own store, so a row state that only the
\* other context's store holds (its edit, its new row, a row it has not
\* deleted) is not in the snapshot; and the snapshot changes in no other
\* step.
C14_LastWriterWins ==
    /\ [][ \A c \in Contexts :
             Wrote(c) =>
               /\ localStorage'.localizations_db = Export(db'[c])
               /\ \A o \in Contexts \ {c} :
                     \A r \in RowsOf(db'[o]) \ RowsOf(db'[c]) :
                        r \notin localStorage'.localizations_db.localizations ]_vars
    /\ [][ localStorage'.localizations_db # localStorage.localizations_db
             => \E c \in Contexts : Wrote(c) ]_vars

\* both tabs have edited the Spanish text of a row of their own; B wrote
\* last, and the snapshot has B's edit and not A's
C14_Witness ==
    /\ lastOp.ctx = "B" /\ lastOp.op = "update"
    /\ \E r \in RowsOf(db["A"]) : r.id = "2" /\ r.es = TabValue("A")
    /\ \E r \in RowsOf(db["B"]) : r.id = "2" /\ r.es = "Enviar"
    /\ \E r \in RowsOf(db["B"]) : r.id = "4" /\ r.es = TabValue("B")
    /\ localStorage.localizations_db = Export(db["B"])
    /\ \A r \in localStorage.localizations_db.localizations : r.es # TabValue("A")

\* C26: a context deleted a seeded entry and the delete was persisted; when
\* that context is next initialized from the snapshot (no store call of the
\* context came in between, and the snapshot holds no entry with the deleted
\* key, so no create has re-added it), the store it opens holds no entry with
\* the deleted entry's key.
C26_DeleteDurable ==
    [][ \A c \in Contexts, e \in initialData :
          ( /\ lastOp.op = "delete" /\ lastOp.ok /\ ~lastOp.error
            /\ lastOp.ctx = c /\ lastOp.id = e.id
            /\ ~db[c].open /\ db'[c].open
            /\ localStorage.localizations_db.present
            /\ \A r \in localStorage.localizations_db.localizations : r.key # e.key )
          => \A r \in db'[c].localizations : r.key # e.key
      ]_vars

(***************************************************************************)
(* Properties of the injected runtime (checked under SpecResolver)         *)
(***************************************************************************)
\* C15 (as the claim states it): a call __i18n(k) yields a string: the
\* current-locale value of k when the map defines one that is not empty,
\* else the English value when the map defines one that is not empty, else
\* the label derived from the last segment when k has the shape
\* word(.word)+, else k itself.
C15_ResolverTotal ==
    [][ preview'["B"].shown # preview["B"].shown =>
          LET k == preview'["B"].shown.k
              TX == preview["B"].TX
              EN == preview["B"].EN
          IN  preview'["B"].shown.v =
                JsString(IF k \in DOMAIN TX /\ TX[k] # "" THEN TX[k]
                         ELSE IF k \in DOMAIN EN /\ EN[k] # "" THEN EN[k]
                         ELSE IF isKeyShape(k) THEN derivedLabel(k)
                         ELSE k) ]_vars

(***************************************************************************)
(* Properties of repeated editor runs (checked under SpecRuns)             *)
(***************************************************************************)
\* C16 (as the claim states it): when the editor's run on a source follows
\* its run on the same source, with only the first run's own steps in
\* between, the second run settles on the same key for every candidate text
\* as the first, mints no key, adds no row and sends no request.
C16_SecondRunIdempotent ==
    [][ ( /\ editor.pc = "idle" /\ editor'.pc # "idle"
          /\ editor.code # "" /\ editor'.code = editor.code )
        => /\ editor'.resolved = editor.resolved
           /\ editor'.newKeys = <<>>
           /\ RowsOf(db'["A"]) = RowsOf(db["A"])
           /\ requests' = requests ]_vars

\* C17: in a run every candidate text is settled once, and for each: when
\* the alias table has its lower-cased form the key is the alias's; else
\* when some row's trimmed English text equals it the key is such a row's;
\* else when some row's trimmed English text equals it but for case the key
\* is such a row's; in these three cases no key is minted for it, and a key
\* minted for a text means that none of the three rules matched.
C17_FirstMatchingRule ==
    [][ (editor.pc = "idle" /\ editor'.pc # "idle") =>
          LET rows == RowsOf(db["A"])
              res == editor'.resolved
              cands == candidatesOf(editor'.code)
          IN  /\ Len(res) = Len(cands)
              /\ \A j \in 1..Len(res) :
                    LET text == res[j].text
                        key == res[j].key
                        lower == toLowerCase(text)
                        alias == lower \in DOMAIN aliasToKey
                        exact == {r.key : r \in {q \in rows : trim(q.en) = text}}
                        nocase == {r.key : r \in {q \in rows :
                                                     toLowerCase(trim(q.en)) = lower}}
                        minted == \E i \in 1..Len(editor'.newKeys) :
                                     editor'.newKeys[i] = [key |-> key, en |-> text]
                    IN  /\ text = cands[j]
                        /\ alias => key = aliasToKey[lower] /\ ~minted
                        /\ (~alias /\ exact # {}) => key \in exact /\ ~minted
                        /\ (~alias /\ exact = {} /\ nocase # {}) =>
                               key \in nocase /\ ~minted
                        /\ minted => (~alias /\ exact = {} /\ nocase = {}) ]_vars

\* a second run on the home code: 'Home' went to the alias's key although
\* the row social.home, created by the first run, has that English text;
\* 'Submit' matched exactly and 'SUBMIT' but for case
C17_Witness ==
    /\ editor.pc = "done" /\ editor.code = CodeHome /\ editor.newKeys = <<>>
    /\ \E r \in RowsOf(db["A"]) : r.key = "social.home" /\ r.en = "Home"
    /\ \E j \in 1..Len(editor.resolved) :
          editor.resolved[j] = [text |-> "Home", key |-> "navigation.home"]
    /\ \E j \in 1..Len(editor.resolved) :
          editor.resolved[j] = [text |-> "Submit", key |-> "button.submit"]
    /\ \E j \in 1..Len(editor.resolved) :
          editor.resolved[j] = [text |-> "SUBMIT", key |-> "button.submit"]

\* C18 (as the claim states it): in a run, every candidate text that matches
\* no rule (no alias for its lower-cased form, no row with its English text,
\* exactly or but for case) receives the key auto.<slug>, or
\* auto.<slug>.<i> with the smallest i >= 2 not in use when a row or an
\* earlier text of the run has taken auto.<slug>; and after the run the
\* store has a row with that key and the text as its English text.
C18_SlugKeys ==
    [][ (editor.pc = "idle" /\ editor'.pc # "idle") =>
          LET rows == RowsOf(db["A"])
              res == editor'.resolved
          IN  \A j \in 1..Len(res) :
                LET text == res[j].text
                    lower == toLowerCase(text)
                    unmatched ==
                        /\ lower \notin DOMAIN aliasToKey
                        /\ \A r \in rows : toLowerCase(trim(r.en)) # lower
                    taken == {r.key : r \in rows} \cup {res[i].key : i \in 1..(j - 1)}
                    slugKey == generateKeyFromText(text)
                    free == {i \in 2..(Len(res) + Cardinality(rows) + 2) :
                                (slugKey \o "." \o ToString(i)) \notin taken}
                    expected == IF slugKey \notin taken THEN slugKey
                                ELSE slugKey \o "." \o ToString(Min(free))
                IN  unmatched =>
                      /\ res[j].key = expected
                      /\ \E r \in RowsOf(db'["A"]) : r.key = expected /\ r.en = text ]_vars

\* C19 (as the claim states it): when the preview rewrites a code, then for
\* every row (K, T) of the store whose text T stands in the code as a text
\* node ('T' or "T" between > and <) or as an expression literal ({'T'} or
\* {"T"}), the output has the call __i18n('K') in braces and no longer has
\* that literal.
C19_LiteralsBecomeCalls ==
    [][ ( /\ preview["B"].dirty /\ ~preview'["B"].dirty
          /\ trim(componentCodeOf("B")) # "" )
        => LET code == processCode(componentCodeOf("B"))
               out == preview'["B"].out
           IN  \A r \in RowsOf(db["B"]) :
                 \A lit \in {"'" \o r.en \o "'", "\"" \o r.en \o "\""} :
                    \A d \in {<<"{", "}">>, <<">", "<">>} :
                       (\E i \in 1..Len(code) : matchEnd(code, i, d[1], lit, d[2]) # 0)
                       => /\ includes(out, "{__i18n('" \o r.key \o "')}")
                          /\ \A i \in 1..Len(out) :
                                matchEnd(out, i, d[1], lit, d[2]) = 0 ]_vars

\* C20 (as the claim states it): when the translate call fails, the error the
\* editor's catch block receives tells a parse failure of the provider's
\* answer apart from a failure of the provider call: the error reported for
\* the one is never reported for the other.
C20_ParseAndTransportDistinct ==
    [][ (editor.pc = "fetching" /\ editor'.outcome = "failed")
        => /\ editor'.failure.error = caughtError("providerParse")
              => editor'.failure.cause = "providerParse"
           /\ editor'.failure.error = caughtError("providerError")
              => editor'.failure.cause = "providerError" ]_vars

\* the keys a code has after ensureLocalizationsForCode: those minted for it
\* and those it names in t('k') or __i18n('k')
KeysOfRun(e) ==
    MintedKeys(e.newKeys)
    \cup {extracted[e.code].keyRefs[j] : j \in 1..Len(extracted[e.code].keyRefs)}
StoreKeys(d) == {r.key : r \in RowsOf(d)}
\* the step in which the run of a message ends: setCurrentComponent(componentCode)
HandOver == editor.pc # "done" /\ editor'.pc = "done"

\* C21 (as the claim states it): in the step that hands a message's code to
\* the preview, every key minted for the code and every key the code names
\* in a call is a key of the store, and the translate call for the code, if
\* one was made, has been answered or has failed.
C21_KeysStoredAtHandOver ==
    [][ HandOver =>
          /\ currentComponent' = editor'.code
          /\ KeysOfRun(editor') \subseteq StoreKeys(db'["A"])
          /\ requests' = requests
          /\ editor'.newKeys # <<>> =>
                 /\ editor.pc = "fetching"
                 /\ editor'.outcome \in {"merged", "unexpected", "failed"} ]_vars

\* C21 (amended): the step that runs ensureLocalizationsForCode leaves every
\* such key in the store; until the code is handed over a key of the run
\* leaves the store only in a step of the table (a delete, or a save of an
\* edited cell); and the code is handed over in that first step when no
\* request was needed, otherwise in the step in which the answer or the
\* failure of the one request arrives.
C21_KeysCreatedBeforeHandOver ==
    /\ [][ (editor.pc = "idle" /\ editor'.pc # "idle") =>
             KeysOfRun(editor') \subseteq StoreKeys(db'["A"]) ]_vars
    /\ [][ (editor.pc = "fetching"
            /\ ~(KeysOfRun(editor) \cap StoreKeys(db["A"]) \subseteq StoreKeys(db'["A"])))
           => /\ lastOp'.n = lastOp.n + 1
              /\ lastOp'.op \in {"delete", "update"}
              /\ editor' = editor ]_vars
    /\ [][ HandOver =>
             /\ currentComponent' = editor'.code
             /\ requests' = requests
             /\ IF editor'.newKeys = <<>> THEN editor.pc = "idle"
                ELSE /\ editor.pc = "fetching"
                     /\ editor'.outcome \in {"merged", "unexpected", "failed"} ]_vars

\* the code was handed over after its request was answered, and the key
\* minted for 'Sign up' had been deleted in the table by then
C21_Witness ==
    /\ editor.pc = "done" /\ editor.outcome = "merged"
    /\ currentComponent = CodeSignUp
    /\ "auto.sign.up" \in KeysOfRun(editor) \ StoreKeys(db["A"])
    /\ {"auto.sign.up.2", "cta.buy_now"} \subseteq StoreKeys(db["A"])

C5_ObserverRefetchesMutation ==
    [][ ( /\ preview["B"].dirty /\ ~preview'["B"].dirty
          /\ preview["B"].lastVersion = Version(localStorage)
          /\ lastOp.op = "update" /\ lastOp.ctx = "A" /\ ~lastOp.error
          /\ lastOp.result.before # Version(localStorage)
          /\ "B" \in lastOp.result.open /\ "B" \in lastOp.result.mounted )
        => \A r \in RowsOf(db["A"]) :
              r.id = lastOp.id =>
                 /\ lastOp.field = preview["B"].currentLocale =>
                       r.key \in DOMAIN preview'["B"].TX
                       /\ preview'["B"].TX[r.key] = lastOp.value
                 /\ lastOp.field = "en" =>
                       r.key \in DOMAIN preview'["B"].EN
                       /\ preview'["B"].EN[r.key] = lastOp.value
                 /\ trim(componentCodeOf("B")) # "" =>
                       \E j \in 1..Len(preview'["B"].entries) :
                          /\ preview'["B"].entries[j].id = r.id
                          /\ preview'["B"].entries[j][lastOp.field] = lastOp.value ]_vars

Minted(p) == runs[p].pc \in {"fetching", "done"}

C24_ConcurrentPassesKeepTexts ==
    \A p \in 1..Len(runs) :
        Minted(p) =>
            \A j \in 1..Len(runs[p].newKeys) :
                \E r \in db["A"].localizations :
                    /\ r.key = runs[p].newKeys[j].key
                    /\ r.en = runs[p].newKeys[j].en
                    /\ \A l \in translationFields : r[l] \in {"", Tr(l, r.en)}

\* C25: from handleNewComponent until the effect processes an assistant
\* message of the new session (processedMessageIds, cleared by
\* handleNewComponent, is empty in between), the current component is empty
\* and the current component id is null, also while a run of the previous
\* session is still under way.
C25_NewSessionStaysEmpty ==
    processedMessageIds = {} => currentComponent = "" /\ currentComponentId = ""

NamedKeys(code) == {extracted[code].keyRefs[j] : j \in 1..Len(extracted[code].keyRefs)}

C30_KeyArgumentsNotText ==
    /\ \A p \in 1..Len(runs) : \A j \in 1..Len(runs[p].newKeys) :
              runs[p].newKeys[j].en \notin NamedKeys(runs[p].code)
    /\ \A q \in 1..Len(requests) : \A j \in 1..Len(requests[q]) :
              \A code \in SessionCodes : requests[q][j].en \notin NamedKeys(code)

=============================================================================
